---- MODULE Spec2Model ----
(***************************************************************************)
(* A model of turtlectl's addon subsystem: the metadata store              *)
(* (internal/addons/store.go), the backup engine (backup.go), the git      *)
(* adapter (git.go) and the addon manager (manager.go); the launcher's     *)
(* directories and Clean (launcher.go); the catalog cache of the registry  *)
(* (wiki/registry.go).                                                     *)
(*                                                                         *)
(* Strings that the code takes apart (URLs, folder names) are sequences of *)
(* atoms: an atom is a piece of text none of the string operations of the  *)
(* code splits ("https://", "/", "A", "-main", ".git").                    *)
(***************************************************************************)
EXTENDS Integers, Sequences, FiniteSets, TLC

VARIABLES
    store,      \* StoreManager.store.Addons of the process: name -> AddonMetadata
    file,       \* <dataDir>/addons.json on disk: [exists, data]
    wr,         \* the position of a Save inside os.WriteFile: [active, data, pos]
    seen,       \* what the last Load of another process made of the file; in
                \* one invocation, what the Load of getAddonManager made of it
    root,       \* <gameDir>/Interface/AddOns: [exists, dirs], dirs: name -> directory
    remote,     \* the repositories behind the URLs: url -> [ok, head, refs, ...]
    backups,    \* <dataDir>/backups: name -> (timestamp -> copied content)
    made,       \* the timestamps of the successful CreateBackup calls, oldest first
    now,        \* the wall clock, in ticks of 1/TicksPerSecond second
    tui,        \* the interactive addons screen (ui/addons Model) and the
                \* commands it started that have not delivered their message;
                \* for `addons update`, the UpdateAllModel and the message
                \* or command that is under way
    disk,       \* the launcher's environment and the paths that exist on disk
    reg,        \* the registry cache, its ETag file, the clock in hours, and
                \* the catalog the server has
    proc,       \* the calls that run side by side on one Manager: the
                \* position and the locals of each
    last        \* the last operation and what it returned

vars == <<store, file, wr, seen, root, remote, backups, made, now, tui, disk, reg, proc, last>>

-----------------------------------------------------------------------------
(* Bounds of the model *)

\* the clock stops at MaxTime ticks
MaxTime == 2

\* CreateBackup is called at most MaxBackupCalls times
MaxBackupCalls == 5

\* a commit history has at most MaxHistory commits
MaxHistory == 3

\* the interactive screen has at most MaxInFlight commands running
MaxInFlight == 2

\* the clock of the backup engine's runs stops at MaxBackupTime ticks
MaxBackupTime == 7

\* the clock ticks TicksPerSecond times a second
TicksPerSecond == 2

\* the registry server publishes at most MaxCatalog catalogs
MaxCatalog == 2

-----------------------------------------------------------------------------
(* Sequences as strings *)

Last(s) == s[Len(s)]

Front(s) == SubSeq(s, 1, Len(s) - 1)

IsPrefix(s, t) == Len(s) <= Len(t) /\ SubSeq(t, 1, Len(s)) = s

\* strings.TrimSuffix(s, <<a>>) for a one-atom suffix
TrimSuffix(s, a) == IF Len(s) > 0 /\ Last(s) = a THEN Front(s) ELSE s

\* the elements of a finite set in some fixed order (a directory listing,
\* the iteration over a map)
RECURSIVE SetToSeq(_)
SetToSeq(S) ==
    IF S = {} THEN <<>>
    ELSE LET x == CHOOSE y \in S : TRUE IN <<x>> \o SetToSeq(S \ {x})

Range(f) == {f[x] : x \in DOMAIN f}

NoName == <<>>

-----------------------------------------------------------------------------
(* time.Time and AddonMetadata (types.go) *)

\* a time.Time: the instant t and whether the value carries a monotonic clock
\* reading, as every result of time.Now() does
TimeAt(t) == [t |-> t, mono |-> TRUE]

TimeNow == TimeAt(now)

\* Time.Equal: the same instant
TimeEqual(a, b) == a.t = b.t

NewMeta(url, tm) == [url |-> url, installedAt |-> tm, updatedAt |-> tm]

NoMeta == [url |-> <<>>, installedAt |-> [t |-> 0, mono |-> FALSE],
           updatedAt |-> [t |-> 0, mono |-> FALSE]]

MetaEqual(a, b) ==
    /\ a.url = b.url
    /\ TimeEqual(a.installedAt, b.installedAt)
    /\ TimeEqual(a.updatedAt, b.updatedAt)

\* two stores hold the same name -> metadata mapping
SameMapping(s1, s2) ==
    /\ DOMAIN s1 = DOMAIN s2
    /\ \A n \in DOMAIN s1 : MetaEqual(s1[n], s2[n])

EmptyStore == [n \in {} |-> NoMeta]

-----------------------------------------------------------------------------
(* The store document: encoding/json on Store (store.go, types.go) *)

\* a marshalling that keeps whole seconds only (time.RFC3339)
MarshalTimeSeconds(tm) == tm.t - (tm.t % 2)

\* Time.MarshalJSON writes the instant as RFC 3339 text with nanoseconds;
\* the monotonic reading is not part of the text
MarshalTime(tm) == tm.t

\* Time.UnmarshalJSON: the parsed instant, without a monotonic reading
UnmarshalTime(x) == [t |-> x, mono |-> FALSE]

MarshalMeta(m) ==
    [git_url |-> m.url,
     installed_at |-> MarshalTime(m.installedAt),
     updated_at |-> MarshalTime(m.updatedAt)]

UnmarshalMeta(j) ==
    [url |-> j.git_url,
     installedAt |-> UnmarshalTime(j.installed_at),
     updatedAt |-> UnmarshalTime(j.updated_at)]

\* json.MarshalIndent(sm.store): the document as a sequence of tokens, the
\* opening brace, one token per entry of the map, the closing brace
MarshalStore(s) ==
    LET keys == SetToSeq(DOMAIN s)
    IN  <<(<<"{">>)>>
        \o [i \in 1..Len(keys) |-> <<"entry", keys[i], MarshalMeta(s[keys[i]])>>]
        \o <<(<<"}">>)>>

\* whether json.Unmarshal accepts the data: a complete document
WellFormed(data) ==
    /\ Len(data) >= 2
    /\ data[1] = <<"{">>
    /\ data[Len(data)] = <<"}">>
    /\ \A i \in 2..(Len(data) - 1) : data[i][1] = "entry"

\* json.Unmarshal(data, &store) of a well-formed document
UnmarshalStore(data) ==
    LET idx == 2..(Len(data) - 1)
        keys == {data[i][2] : i \in idx}
    IN  [k \in keys |->
            UnmarshalMeta(data[CHOOSE i \in idx :
                /\ data[i][2] = k
                /\ \A j \in idx : data[j][2] = k => j <= i][3])]

NoFile == [exists |-> FALSE, data |-> <<>>]

FileOf(data) == [exists |-> TRUE, data |-> data]

-----------------------------------------------------------------------------
(* StoreManager (store.go) *)

\* NewStoreManager: an empty map
NewStoreManager == EmptyStore

\* a Load that assigns the store before it has parsed the document
LoadAssignsFirst(st, f, readErr) ==
    IF ~f.exists THEN [err |-> "nil", store |-> EmptyStore]
    ELSE IF readErr THEN [err |-> "read", store |-> st]
    ELSE IF ~WellFormed(f.data) THEN [err |-> "parse", store |-> EmptyStore]
    ELSE [err |-> "nil", store |-> UnmarshalStore(f.data)]

\* StoreManager.Load on the in-memory store st and the file f; readErr is an
\* os.ReadFile failure other than "not exist". The result is the error and
\* the in-memory store after the call.
StoreLoad(st, f, readErr) ==
    IF ~f.exists THEN [err |-> "nil", store |-> EmptyStore]
    ELSE IF readErr THEN [err |-> "read", store |-> st]
    ELSE IF ~WellFormed(f.data) THEN [err |-> "parse", store |-> st]
    ELSE [err |-> "nil", store |-> UnmarshalStore(f.data)]

\* StoreManager.Get
StoreGet(st, name) ==
    IF name \in DOMAIN st THEN [meta |-> st[name], ok |-> TRUE]
    ELSE [meta |-> NoMeta, ok |-> FALSE]

\* StoreManager.Set
StoreSet(st, name, meta) ==
    [k \in DOMAIN st \cup {name} |-> IF k = name THEN meta ELSE st[k]]

\* StoreManager.Delete
StoreDelete(st, name) == [k \in DOMAIN st \ {name} |-> st[k]]

\* StoreManager.List: the names, in the order of the map iteration
StoreList(st) == SetToSeq(DOMAIN st)

\* StoreManager.All: a copy of the map
StoreAll(st) == [k \in DOMAIN st |-> st[k]]

\* a Save that keeps the entries of the file that the store does not have
SaveMerging(st, f, out) ==
    LET old == IF f.exists /\ WellFormed(f.data) THEN UnmarshalStore(f.data)
               ELSE EmptyStore
        merged == [k \in DOMAIN old \cup DOMAIN st |->
                      IF k \in DOMAIN st THEN st[k] ELSE old[k]]
    IN  CASE out = "ok" -> [err |-> "nil", file |-> FileOf(MarshalStore(merged))]
          [] out = "open" -> [err |-> "open", file |-> f]
          [] OTHER -> [err |-> "write", file |-> FileOf(<<>>)]

\* StoreManager.Save as one call: os.WriteFile opens the file itself with
\* O_TRUNC and writes into it. out is how the call ends: "ok", "open" (MkdirAll
\* or the open failed, nothing written) or "write" (the write failed after
\* the truncation).
StoreSave(st, f, out) ==
    CASE out = "ok" -> [err |-> "nil", file |-> FileOf(MarshalStore(st))]
      [] out = "open" -> [err |-> "open", file |-> f]
      [] OTHER -> [err |-> "write", file |-> FileOf(<<>>)]

SaveOutcomes == {"ok", "open", "write"}

-----------------------------------------------------------------------------
(* The store on its own: one process that uses a StoreManager, the steps of *)
(* its Save inside os.WriteFile, and another process that loads the file.   *)

NameA == <<"A">>
NameB == <<"B">>
NameC == <<"C">>

UrlA == <<"https://", "h", "/", "A", ".git">>
UrlB == <<"https://", "h", "/", "B", ".git">>

StoreNames == {NameA, NameB}

\* the metadata the process under test hands to Set
StoreMetas ==
    {NewMeta(UrlA, TimeAt(0)),
     [url |-> UrlB, installedAt |-> TimeAt(0), updatedAt |-> TimeAt(1)]}

Idle == [active |-> FALSE, data |-> <<>>, pos |-> 0]

NotSeen == [err |-> "none", store |-> EmptyStore]

NoRoot == [exists |-> FALSE, dirs |-> <<>>]

\* no interactive screen is open
NoTui ==
    [state |-> "none", items |-> <<>>, cursor |-> 1, selectedAddon |-> <<>>,
     textInput |-> <<>>, checkingUpdates |-> FALSE, running |-> <<>>,
     loading |-> FALSE, quit |-> FALSE]

\* no environment variable set, nothing on disk
NoDisk ==
    [env |-> [XDG_DATA_HOME |-> <<>>, XDG_CACHE_HOME |-> <<>>,
              TURTLE_WOW_GAME_DIR |-> <<>>],
     files |-> {}]

\* no registry cache and no ETag file; the server has its first catalog
NoReg ==
    [cache |-> [exists |-> FALSE, valid |-> FALSE, mtime |-> 0, data |-> 0],
     etag |-> 0, clock |-> 0, server |-> 1]

\* no call is running
NoProc == [rm |-> [pc |-> "none"], up |-> [pc |-> "none", meta |-> NoMeta]]

NoReport ==
    [OrphanedEntries |-> <<>>, UntrackedAddons |-> <<>>, CorruptedRepos |-> <<>>,
     NameMismatches |-> <<>>, TotalScanned |-> 0, IssuesFound |-> 0]

\* the zero UpdateAllResult; Calls: the names Update was called with
NoUpdateAll ==
    [Updated |-> 0, Failed |-> 0, Skipped |-> 0, Errors |-> <<>>, Calls |-> <<>>]

\* what an operation leaves in last: its name, its argument, its outcome,
\* the errors of a store save and of a backup it only logged, and whether
\* the operation before it was the same one
Ret(op, name, res) ==
    [op |-> op, name |-> name, res |-> res, url |-> <<>>, meta |-> NoMeta,
     rep |-> NoReport, all |-> NoUpdateAll, addons |-> <<>>, saveErr |-> "nil",
     backupErr |-> "nil", again |-> FALSE, ts |-> 0, force |-> FALSE,
     fetch |-> "none", title |-> <<>>]

InitStore ==
    /\ store = NewStoreManager
    /\ file = NoFile
    /\ wr = Idle
    /\ seen = NotSeen
    /\ root = NoRoot
    /\ remote = <<>>
    /\ backups = <<>>
    /\ made = <<>>
    /\ tui = NoTui
    /\ disk = NoDisk
    /\ reg = NoReg
    /\ proc = NoProc
    /\ now = 0
    /\ last = Ret("init", NoName, "nil")

\* no part of the addons tree, the backups or the clock takes part
StoreFrame == UNCHANGED <<root, remote, backups, made, tui, disk, reg, proc, now>>

\* sm.Set(name, meta); the lock keeps it out of a running Save
SetEntry(name, meta) ==
    /\ ~wr.active
    /\ store' = StoreSet(store, name, meta)
    /\ last' = [Ret("Set", name, "nil") EXCEPT !.meta = meta]
    /\ UNCHANGED <<file, wr, seen>>
    /\ StoreFrame

\* sm.Delete(name)
DeleteEntry(name) ==
    /\ ~wr.active
    /\ store' = StoreDelete(store, name)
    /\ last' = Ret("Delete", name, "nil")
    /\ UNCHANGED <<file, wr, seen>>
    /\ StoreFrame

\* sm.Load()
Load(readErr) ==
    /\ ~wr.active
    /\ LET r == StoreLoad(store, file, readErr)
       IN  /\ store' = r.store
           /\ last' = Ret("Load", NoName, r.err)
    /\ UNCHANGED <<file, wr, seen>>
    /\ StoreFrame

\* sm.Save() up to the open inside os.WriteFile: the directory is made, the
\* store is marshalled, the file is opened with O_CREATE|O_TRUNC
SaveOpen ==
    /\ ~wr.active
    /\ wr' = [active |-> TRUE, data |-> MarshalStore(store), pos |-> 0]
    /\ file' = FileOf(<<>>)
    /\ last' = Ret("SaveOpen", NoName, "nil")
    /\ UNCHANGED <<store, seen>>
    /\ StoreFrame

\* sm.Save() when MkdirAll or the open fails: the error is returned
SaveOpenFails ==
    /\ ~wr.active
    /\ last' = Ret("Save", NoName, StoreSave(store, file, "open").err)
    /\ UNCHANGED <<store, file, wr, seen>>
    /\ StoreFrame

\* the write of os.WriteFile reaches the disk piece by piece
SaveWrite ==
    /\ wr.active
    /\ wr.pos < Len(wr.data)
    /\ file' = FileOf(Append(file.data, wr.data[wr.pos + 1]))
    /\ wr' = [wr EXCEPT !.pos = wr.pos + 1]
    /\ last' = Ret("SaveWrite", NoName, "nil")
    /\ UNCHANGED <<store, seen>>
    /\ StoreFrame

\* the write is complete, the file is closed, Save returns nil
SaveClose ==
    /\ wr.active
    /\ wr.pos = Len(wr.data)
    /\ wr' = Idle
    /\ last' = Ret("Save", NoName, "nil")
    /\ UNCHANGED <<store, file, seen>>
    /\ StoreFrame

\* the write fails (disk full, I/O error): Save returns the error and the
\* file keeps what was written
SaveWriteFails ==
    /\ wr.active
    /\ wr.pos < Len(wr.data)
    /\ wr' = Idle
    /\ last' = Ret("Save", NoName, "write")
    /\ UNCHANGED <<store, file, seen>>
    /\ StoreFrame

\* the process is killed inside Save; the next invocation of the tool starts
\* with NewStoreManager
Crash ==
    /\ wr.active
    /\ wr' = Idle
    /\ store' = NewStoreManager
    /\ last' = Ret("Crash", NoName, "nil")
    /\ UNCHANGED <<file, seen>>
    /\ StoreFrame

\* another process of the tool loads the file into its fresh StoreManager
OtherLoad ==
    /\ seen' = StoreLoad(NewStoreManager, file, FALSE)
    /\ last' = Ret("OtherLoad", NoName, seen'.err)
    /\ UNCHANGED <<store, file, wr>>
    /\ StoreFrame

NextStore ==
    \/ \E n \in StoreNames, m \in StoreMetas : SetEntry(n, m)
    \/ \E n \in StoreNames : DeleteEntry(n)
    \/ \E e \in BOOLEAN : Load(e)
    \/ SaveOpen
    \/ SaveOpenFails
    \/ SaveWrite
    \/ SaveClose
    \/ SaveWriteFails
    \/ Crash
    \/ OtherLoad

SpecStore == InitStore /\ [][NextStore]_vars

-----------------------------------------------------------------------------
(* Claims about the store *)

\* C7: during a Save, and after a Save that a crash or a write error cut
\* short, another process that loads the store file never finds a partly
\* written document: its Load does not end in a parse error.
C7_SaveAtomicForReaders == seen.err # "parse"

\* C8: Load returns no error and leaves an empty store when the file is
\* absent; when the file is present but malformed it returns an error and
\* the in-memory store is as it was before the call.
C8_LoadAbsentOrMalformed ==
    [][last'.op = "Load" =>
        /\ ~file.exists => (last'.res = "nil" /\ store' = EmptyStore)
        /\ (file.exists /\ ~WellFormed(file.data)) =>
              (last'.res # "nil" /\ store' = store)]_vars

\* C8, its case: a Load of a malformed file by a process that holds entries
C8_Witness ==
    /\ last.op = "Load"
    /\ last.res = "parse"
    /\ store # EmptyStore

-----------------------------------------------------------------------------
(* Directories under the addons root *)

NoTree == [base |-> <<>>, mod |-> FALSE]

\* what stands under a name in the addons root:
\*   kind    "dir" or "file" (a regular file)
\*   git     "none": no repository, "ok": PlainOpen and HEAD work,
\*           "badhead": PlainOpen works and HEAD cannot be resolved
\*   origin  the URL of the remote "origin", <<>> when there is none
\*   branch  the branch HEAD names, head: the commit it points to
\*   refs    the remote-tracking references: branch -> commit
\*   tree    the working tree: the commit it was checked out from, and
\*           whether it was modified since
\*   rootTocs, subTocs  the names (without ".toc") of the manifest files in
\*           the directory and one level down, in the order of os.ReadDir
PlainDir(rootTocs, subTocs) ==
    [kind |-> "dir", git |-> "none", origin |-> <<>>, branch |-> "",
     head |-> <<>>, refs |-> <<>>, tree |-> NoTree,
     rootTocs |-> rootTocs, subTocs |-> subTocs]

RegularFile == [PlainDir(<<>>, <<>>) EXCEPT !.kind = "file"]

RootOf(dirs) == [exists |-> TRUE, dirs |-> dirs]

NoDirs == [n \in {} |-> RegularFile]

\* os.Stat(filepath.Join(addonsDir, name)) finds something
Exists(r, name) == r.exists /\ name \in DOMAIN r.dirs

PutDir(r, name, d) ==
    RootOf([k \in DOMAIN r.dirs \cup {name} |-> IF k = name THEN d ELSE r.dirs[k]])

\* os.RemoveAll(filepath.Join(addonsDir, name))
RemoveDir(r, name) ==
    [r EXCEPT !.dirs = [k \in DOMAIN r.dirs \ {name} |-> r.dirs[k]]]

-----------------------------------------------------------------------------
(* BackupManager (backup.go) *)

MaxBackupsPerAddon == 3

\* time.Now().Format(BackupTimestampFormat): "20060102-150405" has no digits
\* below the second. The text is modelled by the number of the second, whose
\* order is the order of the fixed-width texts.
FormatTimestamp(t) == t \div TicksPerSecond

NoBackups == [n \in {} |-> <<>>]

\* the entries of <backupDir>/<name>
BackupsOf(bk, name) == IF name \in DOMAIN bk THEN bk[name] ELSE <<>>

\* sort.Sort(sort.Reverse(sort.StringSlice(backups)))
RECURSIVE SortDescending(_)
SortDescending(S) ==
    IF S = {} THEN <<>>
    ELSE LET m == CHOOSE x \in S : \A y \in S : y <= x
         IN  <<m>> \o SortDescending(S \ {m})

\* BackupManager.ListBackups: the directory entries, newest first
ListBackups(bk, name) == SortDescending(DOMAIN BackupsOf(bk, name))

\* BackupManager.DeleteBackup
DeleteBackup(bk, name, ts) ==
    [bk EXCEPT ![name] = [t \in DOMAIN bk[name] \ {ts} |-> bk[name][t]]]

\* BackupManager.cleanupOldBackups; deleteFails: the first os.RemoveAll
\* fails, which ends the loop
CleanupOldBackups(bk, name, deleteFails) ==
    LET l == ListBackups(bk, name)
    IN  IF Len(l) <= MaxBackupsPerAddon \/ deleteFails THEN bk
        ELSE [bk EXCEPT ![name] =
                [t \in {l[i] : i \in 1..MaxBackupsPerAddon} |-> bk[name][t]]]

\* the place of a file name in the order of its bytes, among the names of
\* the model
FileRank(name) ==
    CASE name = <<".h">> -> 0
      [] name = <<"A">> -> 1
      [] name = <<"B">> -> 2
      [] name = <<"Blizzard_RaidUI">> -> 3
      [] name = <<"C">> -> 4
      [] OTHER -> 5

\* the order in which os.ReadDir lists the names S: by file name (for the
\* names of the model the order of the bytes)
RECURSIVE ReadDirOrder(_)
ReadDirOrder(S) ==
    IF S = {} THEN <<>>
    ELSE LET x == CHOOSE y \in S : \A z \in S : FileRank(y) <= FileRank(z)
         IN  <<x>> \o ReadDirOrder(S \ {x})

\* copyDir(src, dst) when dst is there already with the content old:
\* os.MkdirAll keeps it, every file of src is written over the file of the
\* same name, and what old has beyond that stays
CopyOnto(old, src) ==
    LET g == IF src.git # "none" THEN src ELSE old
    IN  [kind |-> "dir", git |-> g.git, origin |-> g.origin, branch |-> g.branch,
         head |-> g.head, refs |-> g.refs,
         tree |-> IF src.git # "none" THEN src.tree
                  ELSE [base |-> old.tree.base,
                        mod |-> old.tree.mod \/ src.tree.mod \/ old.git # "none"],
         rootTocs |-> ReadDirOrder(Range(old.rootTocs) \cup Range(src.rootTocs)),
         subTocs |-> ReadDirOrder(Range(old.subTocs) \cup Range(src.subTocs))]

\* BackupManager.RestoreBackup(name, ts, destPath), destPath the entry dest
\* of the addons root. removeFails: os.RemoveAll(destPath) returns an error;
\* copyFails: copyDir returns one, after os.MkdirAll has made destPath.
RestoreBackup(bk, r, name, ts, dest, removeFails, copyFails) ==
    IF ts \notin DOMAIN BackupsOf(bk, name)
    THEN [err |-> "backup not found", root |-> r]
    ELSE IF Exists(r, dest) /\ removeFails
    THEN [err |-> "remove", root |-> r]
    ELSE LET r1 == IF Exists(r, dest) THEN RemoveDir(r, dest) ELSE r
         IN  IF copyFails
             THEN [err |-> "copy", root |-> PutDir(r1, dest, PlainDir(<<>>, <<>>))]
             ELSE [err |-> "nil", root |-> PutDir(r1, dest, bk[name][ts])]

\* BackupManager.CreateBackup of the directory r.dirs[name] at time t.
\* copyFails: copyDir returns an error (it also does when the source does not
\* exist). The result: the error, the backups, the timestamp of the copy.
CreateBackup(bk, r, name, t, copyFails, deleteFails) ==
    LET ts == FormatTimestamp(t)
        \* os.MkdirAll(addonBackupDir)
        bk1 == IF name \in DOMAIN bk THEN bk
               ELSE [k \in DOMAIN bk \cup {name} |->
                        IF k = name THEN <<>> ELSE bk[k]]
    IN  IF copyFails \/ ~Exists(r, name)
        THEN \* os.RemoveAll(backupPath)
             [err |-> "copy", backups |-> DeleteBackup(bk1, name, ts), ts |-> ts]
        ELSE LET copied == [bk1 EXCEPT ![name] =
                              [x \in DOMAIN bk1[name] \cup {ts} |->
                                  IF x # ts THEN bk1[name][x]
                                  ELSE IF ts \in DOMAIN bk1[name]
                                       THEN CopyOnto(bk1[name][ts], r.dirs[name])
                                       ELSE r.dirs[name]]]
             IN  [err |-> "nil",
                  backups |-> CleanupOldBackups(copied, name, deleteFails),
                  ts |-> ts]

-----------------------------------------------------------------------------
(* The backup engine on its own: one addon directory, the clock, and calls *)
(* of CreateBackup.                                                        *)

InitBackup ==
    /\ store = NewStoreManager
    /\ file = NoFile
    /\ wr = Idle
    /\ seen = NotSeen
    /\ root = RootOf([n \in {NameA} |-> PlainDir(<<NameA>>, <<>>)])
    /\ remote = <<>>
    /\ backups = NoBackups
    /\ made = <<>>
    /\ tui = NoTui
    /\ disk = NoDisk
    /\ reg = NoReg
    /\ proc = NoProc
    /\ now = 0
    /\ last = Ret("init", NoName, "nil")

\* time passes
TickBackup ==
    /\ now < MaxBackupTime
    /\ now' = now + 1
    /\ last' = Ret("Tick", NoName, "nil")
    /\ UNCHANGED <<store, file, wr, seen, root, remote, backups, made, tui, disk, reg, proc>>

\* bm.CreateBackup(addonPath, name)
DoCreateBackup(name, copyFails, deleteFails) ==
    /\ Len(made) < MaxBackupCalls
    /\ LET r == CreateBackup(backups, root, name, now, copyFails, deleteFails)
       IN  /\ backups' = r.backups
           /\ made' = IF r.err = "nil" THEN Append(made, r.ts) ELSE made
           /\ last' = Ret("CreateBackup", name, r.err)
    /\ UNCHANGED <<store, file, wr, seen, root, remote, now, tui, disk, reg, proc>>

NextBackup ==
    \/ TickBackup
    \/ \E c \in BOOLEAN, d \in BOOLEAN : DoCreateBackup(NameA, c, d)

SpecBackup == InitBackup /\ [][NextBackup]_vars

\* C6: ListBackups never has more than MaxBackupsPerAddon entries, and after
\* five successful CreateBackup calls it has exactly three, the three most
\* recently created backups, whatever time lies between the calls.
C6_Retention ==
    LET l == ListBackups(backups, NameA)
        n == Len(made)
    IN  /\ Len(l) <= MaxBackupsPerAddon
        /\ n >= 5 =>
              /\ Len(l) = MaxBackupsPerAddon
              /\ Range(l) = {made[i] : i \in (n - 2)..n}

-----------------------------------------------------------------------------
(* The git adapter (git.go) *)

\* a commit is the sequence of the changes that lead to it, so that the
\* ancestors of a commit are its prefixes
IsDescendant(c, anc) == IsPrefix(anc, c)

\* strings.ToLower on the first atom of a URL
ToLowerAtom(a) ==
    CASE a = "HTTPS://" -> "https://"
      [] a = "GIT@" -> "git@"
      [] a = "GIT://" -> "git://"
      [] OTHER -> a

\* ValidateGitURL: nil exactly for the three prefixes
ValidateGitURL(url) ==
    /\ Len(url) > 0
    /\ ToLowerAtom(url[1]) \in {"https://", "git@", "git://"}

\* NormalizeGitURL
NormalizeGitURL(url) ==
    IF Len(url) > 0 /\ Last(url) = ".git" THEN url ELSE Append(url, ".git")

\* the part of s after its last "/" (strings.Split, last element)
RECURSIVE AfterLastSlash(_)
AfterLastSlash(s) ==
    IF Len(s) = 0 THEN <<>>
    ELSE IF Last(s) = "/" THEN <<>>
    ELSE Append(AfterLastSlash(Front(s)), Last(s))

\* ExtractRepoName: ".git" off, the last path component, then the suffixes
\* "-master", "-main", "-trunk" off, each tried once and in this order
ExtractRepoName(gitURL) ==
    LET n0 == AfterLastSlash(TrimSuffix(gitURL, ".git"))
        n1 == TrimSuffix(n0, "-master")
        n2 == TrimSuffix(n1, "-main")
    IN  TrimSuffix(n2, "-trunk")

\* what git.PlainClone makes of the remote repository rem at url
ClonedDir(url, rem) ==
    [kind |-> "dir", git |-> "ok", origin |-> url, branch |-> rem.head,
     head |-> rem.refs[rem.head], refs |-> rem.refs,
     tree |-> [base |-> rem.refs[rem.head], mod |-> FALSE],
     rootTocs |-> rem.rootTocs, subTocs |-> rem.subTocs]

\* what a clone that failed half-way can leave at the destination: a
\* directory that does not open as a repository
PartialDir == PlainDir(<<>>, <<>>)

\* a failed clone whose leftover opens as a repository (the checkout failed)
LeftoverRepo(url, rem) ==
    [ClonedDir(url, rem) EXCEPT !.rootTocs = <<>>, !.subTocs = <<>>,
                                !.tree = [base |-> <<>>, mod |-> FALSE]]

\* IsGitRepo: git.PlainOpen succeeds
IsGitRepo(r, name) ==
    /\ Exists(r, name)
    /\ r.dirs[name].kind = "dir"
    /\ r.dirs[name].git # "none"

\* CloneRepo(url, destPath) into the addons root r; out is how the clone
\* ends: "ok", "fail" (nothing left), "partial", "repo" (something left).
\* A clone of a URL that has no repository behind it fails.
CloneOutcomes == {"ok", "fail", "partial", "repo"}

Reachable(rem, url) == url \in DOMAIN rem /\ rem[url].ok

CloneRepo(r, rem, url, name, out) ==
    IF ~Reachable(rem, url)
    THEN [err |-> "clone", root |-> IF out = "partial"
                                    THEN PutDir(r, name, PartialDir) ELSE r]
    ELSE CASE out = "ok" ->
                [err |-> "nil", root |-> PutDir(r, name, ClonedDir(url, rem[url]))]
           [] out = "partial" ->
                [err |-> "clone", root |-> PutDir(r, name, PartialDir)]
           [] out = "repo" ->
                [err |-> "clone", root |-> PutDir(r, name, LeftoverRepo(url, rem[url]))]
           [] OTHER -> [err |-> "clone", root |-> r]

\* a cleanup that leaves whatever the clone left
CleanupNothing(r, name) == r

\* CleanupFailedClone
CleanupFailedClone(r, name) ==
    IF ~Exists(r, name) THEN r
    ELSE IF IsGitRepo(r, name) THEN r
    ELSE RemoveDir(r, name)

\* GetRepoRemoteURL
GetRepoRemoteURL(r, name) ==
    IF ~IsGitRepo(r, name) THEN [err |-> "ErrNotGitRepo", url |-> <<>>]
    ELSE IF r.dirs[name].origin = <<>> THEN [err |-> "ErrNoRemote", url |-> <<>>]
    ELSE [err |-> "nil", url |-> r.dirs[name].origin]

\* VerifyRepoIntegrity: nil when .git is there, the repository opens and
\* HEAD resolves
VerifyRepoIntegrity(r, name) ==
    IF ~IsGitRepo(r, name) THEN "corrupted repository"
    ELSE IF r.dirs[name].git = "badhead" THEN "corrupted HEAD"
    ELSE "nil"

\* repo.Fetch: the remote-tracking references take the remote's branches;
\* the default refspec forces them and removes none
FetchedRefs(d, rem) ==
    [b \in DOMAIN d.refs \cup DOMAIN rem.refs |->
        IF b \in DOMAIN rem.refs THEN rem.refs[b] ELSE d.refs[b]]

\* the remote-tracking reference UpdateRepo and CheckForUpdates compare
\* HEAD with: origin/<branch>, else origin/main, else origin/master
ResolveRemoteRef(refs, branch) ==
    IF branch \in DOMAIN refs THEN [err |-> "nil", hash |-> refs[branch]]
    ELSE IF "main" \in DOMAIN refs THEN [err |-> "nil", hash |-> refs["main"]]
    ELSE IF "master" \in DOMAIN refs THEN [err |-> "nil", hash |-> refs["master"]]
    ELSE [err |-> "no remote branch", hash |-> <<>>]

\* a status check that takes every working tree for clean
IsCleanAlways(d) == TRUE

\* worktree.Status().IsClean()
IsClean(d) == ~d.tree.mod /\ d.tree.base = d.head

\* UpdateRepo on the directory d; fetchFails: repo.Fetch returns an error.
\* The result: the error and the directory after the call.
UpdateRepo(d, rem, fetchFails) ==
    IF d.kind # "dir" \/ d.git = "none" THEN [err |-> "ErrNotGitRepo", dir |-> d]
    ELSE IF ~IsClean(d) THEN [err |-> "ErrFFNotPossible", dir |-> d]
    ELSE IF fetchFails \/ ~Reachable(rem, d.origin) THEN [err |-> "fetch", dir |-> d]
    ELSE LET f == [d EXCEPT !.refs = FetchedRefs(d, rem[d.origin])]
             t == ResolveRemoteRef(f.refs, f.branch)
         IN  IF f.git = "badhead" THEN [err |-> "head", dir |-> f]
             ELSE IF t.err # "nil" THEN [err |-> t.err, dir |-> f]
             ELSE IF f.head = t.hash THEN [err |-> "ErrAlreadyUpToDate", dir |-> f]
             ELSE \* worktree.Reset(HardReset) to the remote commit
                  [err |-> "nil",
                   dir |-> [f EXCEPT !.head = t.hash,
                                     !.tree = [base |-> t.hash, mod |-> FALSE]]]

-----------------------------------------------------------------------------
(* Manifests (toc.go) *)

\* FindTOCFile: the first manifest of the directory itself, else the first
\* one a level down; the name is the file name without its extension
FindTOCFile(d) ==
    IF d.kind # "dir" THEN [err |-> "readdir", name |-> <<>>, at |-> "none"]
    ELSE IF Len(d.rootTocs) > 0
         THEN [err |-> "nil", name |-> d.rootTocs[1], at |-> "root"]
    ELSE IF Len(d.subTocs) > 0
         THEN [err |-> "nil", name |-> d.subTocs[1], at |-> "sub"]
    ELSE [err |-> "ErrNotExist", name |-> <<>>, at |-> "none"]

\* the manifests that carry no "## Title:" line
Untitled == {<<"N">>}

\* the title line of the manifest file name.toc
TitleOf(name) == IF name \in Untitled THEN <<>> ELSE <<"title of">> \o name

\* a manifest reader that makes up a title when there is no manifest
ParseTOCGuessing(toc) ==
    [Title |-> <<"title">>, Version |-> <<>>, Author |-> <<>>]

\* ParseTOC of the manifest FindTOCFile found, as GetInfo uses it: the
\* title, version and author lines of the manifest toc.name, nothing when
\* there is no manifest
ParseTOC(toc) ==
    IF toc.err = "nil"
    THEN [Title |-> TitleOf(toc.name),
          Version |-> <<"version of">> \o toc.name,
          Author |-> <<"author of">> \o toc.name]
    ELSE [Title |-> <<>>, Version |-> <<>>, Author |-> <<>>]

-----------------------------------------------------------------------------
(* Manager (manager.go) *)

\* the state a Manager works on: its store, the store file, the addons root
\* and the backups
Mgr == [store |-> store, file |-> file, root |-> root, backups |-> backups]

\* strings.HasPrefix(name, "."): the atoms that begin with a dot
DotAtoms == {".", ".git", ".h"}

IsHidden(name) == Len(name) > 0 /\ name[1] \in DotAtoms

defaultAddons ==
    {<<"Blizzard_AuctionUI">>, <<"Blizzard_BattlefieldMinimap">>,
     <<"Blizzard_BindingUI">>, <<"Blizzard_CombatText">>, <<"Blizzard_CraftUI">>,
     <<"Blizzard_GMChatUI">>, <<"Blizzard_GMSurveyUI">>, <<"Blizzard_InspectUI">>,
     <<"Blizzard_MacroUI">>, <<"Blizzard_RaidUI">>, <<"Blizzard_TalentUI">>,
     <<"Blizzard_TradeSkillUI">>, <<"Blizzard_TrainerUI">>}

\* a classifier that knows no bundled addon
IsDefaultAddonNever(name) == FALSE

\* IsDefaultAddon
IsDefaultAddon(name) == name \in defaultAddons

\* the directories os.ReadDir(addonsDir) lists that are not hidden
ScannedFolders(r) ==
    {n \in DOMAIN r.dirs : r.dirs[n].kind = "dir" /\ ~IsHidden(n)}

\* EnsureAddonsDir: os.MkdirAll
EnsureAddonsDir(r) == IF r.exists THEN r ELSE RootOf(NoDirs)

\* m.store.Save() from inside an operation: a failure is logged only
SaveLogged(m, out) == [m EXCEPT !.file = StoreSave(m.store, m.file, out).file]

\* filepath.Join(m.addonsDir, name) as a name under the addons root:
\* filepath.Clean drops the separators at the end, so that "A/" names the
\* directory A
RECURSIVE Joined(_)
Joined(name) ==
    IF Len(name) > 0 /\ Last(name) = "/" THEN Joined(Front(name)) ELSE name

\* an Install that renames the clone over whatever has the manifest's name
RenamesOver(r, addonName, tocName, renameFails) ==
    /\ tocName # <<>>
    /\ tocName # addonName
    /\ ~renameFails

\* whether Install renames the cloned folder addonName to the manifest's
\* name: the names differ, nothing stands under the manifest's name, and
\* os.Rename works
Renames(r, addonName, tocName, renameFails) ==
    /\ tocName # <<>>
    /\ tocName # addonName
    /\ ~Exists(r, tocName)
    /\ ~renameFails

\* the file Install hands to ParseTOC: filepath.Join(addonPath,
\* filepath.Base(tocPath)), the base name of the manifest directly under the
\* addon folder. It is the manifest FindTOCFile found when that lies in the
\* folder itself; for a manifest one level down no such file exists.
InstallTOCPath(toc) ==
    IF toc.err = "nil" /\ toc.at = "sub"
    THEN [toc EXCEPT !.err = "ErrNotExist"]
    ELSE toc

\* Manager.Install(gitURL0) at time t. env: how the clone, the rename and the
\* save end. The result: the state after the call, and in ret the returned
\* name (of the addon; of the target when the call fails), the error, and
\* the URL the call was given.
Install(m, rem, gitURL0, t, env) ==
    IF ~ValidateGitURL(gitURL0)
    THEN [m |-> m,
          ret |-> [Ret("Install", NoName, "ErrInvalidURL") EXCEPT !.url = gitURL0]]
    ELSE
    LET gitURL == NormalizeGitURL(gitURL0)
        addonName == ExtractRepoName(gitURL)
    IN  IF Exists(m.root, addonName)
        THEN [m |-> m,
              ret |-> [Ret("Install", addonName, "ErrAddonExists")
                          EXCEPT !.url = gitURL0]]
        ELSE
        LET r1 == EnsureAddonsDir(m.root)
            c == CloneRepo(r1, rem, gitURL, addonName, env.clone)
        IN  IF c.err # "nil"
            THEN [m |-> [m EXCEPT !.root = CleanupFailedClone(c.root, addonName)],
                  ret |-> [Ret("Install", addonName, "clone") EXCEPT !.url = gitURL0]]
            ELSE
            LET toc == FindTOCFile(c.root.dirs[addonName])
                renamed == Renames(c.root, addonName, toc.name, env.renameFails)
                final == IF renamed THEN toc.name ELSE addonName
                r2 == IF renamed
                      THEN PutDir(RemoveDir(c.root, addonName), final,
                                  c.root.dirs[addonName])
                      ELSE c.root
                m2 == [m EXCEPT !.root = r2,
                                !.store = StoreSet(m.store, final, NewMeta(gitURL, TimeAt(t)))]
                tocInfo == ParseTOC(InstallTOCPath(toc))
            IN  [m |-> SaveLogged(m2, env.save),
                 ret |-> [Ret("Install", final, "nil")
                             EXCEPT !.url = gitURL0,
                                    !.title = IF tocInfo.Title # <<>>
                                              THEN tocInfo.Title ELSE final,
                                    !.saveErr = StoreSave(m2.store, m2.file,
                                                          env.save).err]]

\* a Remove that gives up when the backup it was asked for fails
RemoveNeedsBackup(m, name, createBackup, t, env) ==
    IF ~Exists(m.root, name)
    THEN [m |-> m, ret |-> Ret("Remove", name, "ErrAddonNotFound")]
    ELSE
    LET b == CreateBackup(m.backups, m.root, name, t,
                          env.copyFails \/ m.root.dirs[name].kind # "dir",
                          env.deleteFails)
    IN  IF createBackup /\ b.err # "nil"
        THEN [m |-> [m EXCEPT !.backups = b.backups],
              ret |-> [Ret("Remove", name, "backup") EXCEPT !.backupErr = b.err]]
        ELSE LET m2 == [m EXCEPT !.backups = IF createBackup THEN b.backups ELSE @,
                                 !.root = RemoveDir(m.root, name),
                                 !.store = StoreDelete(m.store, name)]
             IN  [m |-> SaveLogged(m2, env.save),
                  ret |-> [Ret("Remove", name, "nil")
                              EXCEPT !.saveErr = StoreSave(m2.store, m2.file,
                                                           env.save).err]]

\* Manager.Remove(name, createBackup) at time t. env: how the copy of the
\* backup, the eviction of old backups, os.RemoveAll and the save end.
\* The directory is the one filepath.Join names, the store key is name.
Remove(m, name, createBackup, t, env) ==
    LET dir == Joined(name) IN
    IF ~Exists(m.root, dir)
    THEN [m |-> m, ret |-> Ret("Remove", name, "ErrAddonNotFound")]
    ELSE
    LET b == IF createBackup
             THEN CreateBackup(m.backups, m.root, dir, t,
                               env.copyFails \/ m.root.dirs[dir].kind # "dir",
                               env.deleteFails)
             ELSE [err |-> "nil", backups |-> m.backups, ts |-> 0]
        m1 == [m EXCEPT !.backups = b.backups]
    IN  IF env.removeFails
        THEN [m |-> m1,
              ret |-> [Ret("Remove", name, "remove") EXCEPT !.backupErr = b.err]]
        ELSE LET m2 == [m1 EXCEPT !.root = RemoveDir(m.root, dir),
                                  !.store = StoreDelete(m.store, name)]
             IN  [m |-> SaveLogged(m2, env.save),
                  ret |-> [Ret("Remove", name, "nil")
                              EXCEPT !.backupErr = b.err,
                                     !.saveErr = StoreSave(m2.store, m2.file,
                                                           env.save).err]]

\* a test that takes every directory for one the store has a URL for
HasStoredURLAlways(g) == TRUE

\* the store has an entry with a URL to clone from: ok && meta.GitURL != ""
HasStoredURL(g) == g.ok /\ g.meta.url # <<>>

\* a refresh that takes the entry for installed anew
RefreshedWhole(meta, t) == NewMeta(meta.url, TimeAt(t))

\* meta.UpdatedAt = time.Now() on the entry Update read from the store
Refreshed(meta, t) == [meta EXCEPT !.updatedAt = TimeAt(t)]

\* Manager.Update(name) at time t. ret.res is "updated", "recloned",
\* "AlreadyUpToDate" or the error. The directory is the one filepath.Join
\* names, the store key is name.
Update(m, rem, name, t, env) ==
    LET dir == Joined(name) IN
    IF ~Exists(m.root, dir)
    THEN [m |-> m, ret |-> Ret("Update", name, "ErrAddonNotFound")]
    ELSE IF ~IsGitRepo(m.root, dir)
    THEN LET g == StoreGet(m.store, name)
         IN  IF ~HasStoredURL(g)
             THEN [m |-> m, ret |-> Ret("Update", name, "no stored URL")]
             ELSE
             LET b == CreateBackup(m.backups, m.root, dir, t,
                                   env.copyFails \/ m.root.dirs[dir].kind # "dir",
                                   env.deleteFails)
                 bk == b.backups
                 c == CloneRepo(RemoveDir(m.root, dir), rem, g.meta.url, dir,
                                env.clone)
             IN  IF env.removeFails
                 THEN [m |-> [m EXCEPT !.backups = bk],
                       ret |-> [Ret("Update", name, "remove")
                                   EXCEPT !.backupErr = b.err]]
                 ELSE IF c.err # "nil"
                 THEN [m |-> [m EXCEPT !.backups = bk, !.root = c.root],
                       ret |-> [Ret("Update", name, "clone")
                                   EXCEPT !.backupErr = b.err]]
                 ELSE [m |-> SaveLogged(
                                [m EXCEPT !.backups = bk, !.root = c.root,
                                          !.store = StoreSet(m.store, name,
                                              Refreshed(g.meta, t))],
                                env.save),
                       ret |-> [Ret("Update", name, "recloned")
                                   EXCEPT !.backupErr = b.err]]
    ELSE LET u == UpdateRepo(m.root.dirs[dir], rem, env.fetchFails)
             m1 == [m EXCEPT !.root = PutDir(m.root, dir, u.dir)]
             g == StoreGet(m.store, name)
         IN  IF u.err = "ErrAlreadyUpToDate"
             THEN [m |-> m1, ret |-> Ret("Update", name, "AlreadyUpToDate")]
             ELSE IF u.err # "nil"
             THEN [m |-> m1, ret |-> Ret("Update", name, u.err)]
             ELSE IF g.ok
             THEN [m |-> SaveLogged(
                            [m1 EXCEPT !.store = StoreSet(m.store, name,
                                          Refreshed(g.meta, t))],
                            env.save),
                   ret |-> Ret("Update", name, "updated")]
             ELSE [m |-> m1, ret |-> Ret("Update", name, "updated")]

\* an UpdateAll that counts a re-cloned addon neither as updated nor as
\* skipped
CountUpdatedOnly(result, name, res) ==
    LET called == [result EXCEPT !.Calls = Append(@, name)]
    IN  CASE res = "AlreadyUpToDate" -> [called EXCEPT !.Skipped = @ + 1]
          [] res = "updated" -> [called EXCEPT !.Updated = @ + 1]
          [] res = "recloned" -> called
          [] OTHER -> [called EXCEPT !.Failed = @ + 1,
                                     !.Errors = Append(@, <<name, res>>)]

\* the body of UpdateAll's loop after m.Update(name) returned res: an error
\* counts as failed and is recorded; a result counts as skipped when
\* AlreadyUpToDate is set, else as updated when Updated is set (Update sets
\* it with ReCloned too)
CountUpdate(result, name, res) ==
    LET called == [result EXCEPT !.Calls = Append(@, name)]
    IN  CASE res = "AlreadyUpToDate" -> [called EXCEPT !.Skipped = @ + 1]
          [] res \in {"updated", "recloned"} -> [called EXCEPT !.Updated = @ + 1]
          [] OTHER -> [called EXCEPT !.Failed = @ + 1,
                                     !.Errors = Append(@, <<name, res>>)]

\* UpdateAll's loop over the names still to update; envs: how the steps of
\* the Update of each name end
RECURSIVE UpdateEach(_, _, _, _, _, _)
UpdateEach(m, rem, names, t, envs, result) ==
    IF names = <<>> THEN [m |-> m, result |-> result]
    ELSE LET u == Update(m, rem, Head(names), t, envs[Head(names)])
         IN  UpdateEach(u.m, rem, Tail(names), t, envs,
                        CountUpdate(result, Head(names), u.ret.res))

\* Manager.UpdateAll at time t
UpdateAll(m, rem, t, envs) ==
    LET r == UpdateEach(m, rem, StoreList(m.store), t, envs, NoUpdateAll)
    IN  [m |-> r.m,
         ret |-> [Ret("UpdateAll", NoName, "nil") EXCEPT !.all = r.result]]

\* a GetInfo that prefers the URL of the working copy's remote
GetInfoRemoteFirst(m, name) ==
    LET g == StoreGet(m.store, name)
        u == GetRepoRemoteURL(m.root, name)
        info == ParseTOC(FindTOCFile(m.root.dirs[name]))
    IN  [Name |-> name,
         Title |-> info.Title, Version |-> info.Version, Author |-> info.Author,
         GitURL |-> IF u.err = "nil" THEN u.url
                    ELSE IF g.ok THEN g.meta.url ELSE <<>>,
         InstalledAt |-> g.meta.installedAt,
         UpdatedAt |-> g.meta.updatedAt]

\* the Addon Manager.GetInfo returns for a name os.Stat finds: the manifest's
\* title, version and author, the URL and the timestamps of the store entry
\* or else the URL of the working copy's remote
GetInfo(m, name) ==
    LET g == StoreGet(m.store, name)
        u == GetRepoRemoteURL(m.root, name)
        info == ParseTOC(FindTOCFile(m.root.dirs[name]))
    IN  [Name |-> name,
         Title |-> info.Title, Version |-> info.Version, Author |-> info.Author,
         GitURL |-> IF g.ok THEN g.meta.url
                    ELSE IF u.err = "nil" THEN u.url ELSE <<>>,
         InstalledAt |-> g.meta.installedAt,
         UpdatedAt |-> g.meta.updatedAt]

\* strings.ToLower(name) as a sort key: the place of the lower-case name
\* among the lower-case names of the model
LowerRank(name) ==
    CASE name = <<".h">> -> 0
      [] name = <<"A">> -> 1
      [] name = <<"B">> -> 2
      [] name = <<"Blizzard_RaidUI">> -> 3
      [] name = <<"C">> -> 4
      [] OTHER -> 5

\* getPriority of the sort in ListInstalled
Priority(a) ==
    IF IsDefaultAddon(a.Name) THEN 0 ELSE IF a.GitURL # <<>> THEN 1 ELSE 2

ListLess(a, b) ==
    IF Priority(a) # Priority(b) THEN Priority(a) < Priority(b)
    ELSE LowerRank(a.Name) < LowerRank(b.Name)

RECURSIVE SortAddons(_)
SortAddons(S) ==
    IF S = {} THEN <<>>
    ELSE LET x == CHOOSE y \in S : \A z \in S \ {y} : ~ListLess(z, y)
         IN  <<x>> \o SortAddons(S \ {x})

\* Manager.ListInstalled: the non-hidden directories, sorted
ListInstalled(m) ==
    IF ~m.root.exists THEN <<>>
    ELSE SortAddons({GetInfo(m, n) : n \in ScannedFolders(m.root)})

\* a Repair that reports the orphaned entries and keeps them in the store
KeepOrphaned(st, orphaned) == st

\* the loop in which Repair deletes the orphaned entries from the store
RemoveOrphaned(st, orphaned) ==
    [n \in DOMAIN st \ Range(orphaned) |-> st[n]]

\* a Repair that tracks nothing by itself
AutoTrackedNone(r, untracked) == {}

\* the untracked folders Repair gives a store entry: those whose
\* GetRepoRemoteURL returns a URL
AutoTracked(r, untracked) ==
    {n \in Range(untracked) : GetRepoRemoteURL(r, n).err = "nil"}

\* a Repair that writes the entry of every working copy it scans anew
TrackedAnew(st, r, autoTracked, t) ==
    LET repos == {n \in ScannedFolders(r) : GetRepoRemoteURL(r, n).err = "nil"}
    IN  [n \in DOMAIN st \cup autoTracked |->
            IF n \in autoTracked \cup repos
            THEN NewMeta(GetRepoRemoteURL(r, n).url, TimeAt(t))
            ELSE st[n]]

\* the store after the loop over the folders: m.store.Set for the
\* auto-tracked names only, with the URL of the remote and the time of the
\* call
Tracked(st, r, autoTracked, t) ==
    [n \in DOMAIN st \cup autoTracked |->
        IF n \in autoTracked
        THEN NewMeta(GetRepoRemoteURL(r, n).url, TimeAt(t))
        ELSE st[n]]

\* a counter that counts a folder once, whatever the number of its issues
IssuesFoundPerName(orphaned, untracked, corrupted, mismatched) ==
    Cardinality(Range(orphaned) \cup Range(untracked) \cup Range(corrupted)
                \cup Range(mismatched))

\* result.IssuesFound++ next to every append to one of the four lists
IssuesFound(orphaned, untracked, corrupted, mismatched) ==
    Len(orphaned) + Len(untracked) + Len(corrupted) + Len(mismatched)

\* Manager.Repair at time t
Repair(m, t, env) ==
    IF ~m.root.exists
    THEN [m |-> m, ret |-> Ret("Repair", NoName, "nil")]
    ELSE
    LET installedFolders == ScannedFolders(m.root)
        folders == SetToSeq({n \in installedFolders : ~IsDefaultAddon(n)})
        storedAddons == StoreAll(m.store)
        IsOrphan(n) == n \notin installedFolders
        IsUntracked(n) == n \notin DOMAIN storedAddons
        IsCorrupted(n) ==
            IsGitRepo(m.root, n) /\ VerifyRepoIntegrity(m.root, n) # "nil"
        IsMismatch(n) ==
            LET toc == FindTOCFile(m.root.dirs[n])
            IN  toc.err = "nil" /\ toc.name # n
        orphaned == SelectSeq(StoreList(m.store), IsOrphan)
        untracked == SelectSeq(folders, IsUntracked)
        corrupted == SelectSeq(folders, IsCorrupted)
        mismatched == SelectSeq(folders, IsMismatch)
        autoTracked == AutoTracked(m.root, untracked)
        tracked == Tracked(m.store, m.root, autoTracked, t)
        cleaned == RemoveOrphaned(tracked, orphaned)
        rep == [OrphanedEntries |-> orphaned,
                UntrackedAddons |-> untracked,
                CorruptedRepos |-> corrupted,
                NameMismatches |->
                    [i \in 1..Len(mismatched) |->
                        <<mismatched[i], FindTOCFile(m.root.dirs[mismatched[i]]).name>>],
                TotalScanned |-> Cardinality(installedFolders),
                IssuesFound |->
                    IssuesFound(orphaned, untracked, corrupted, mismatched)]
    IN  [m |-> SaveLogged([m EXCEPT !.store = cleaned], env.save),
         ret |-> [Ret("Repair", NoName, "nil")
                     EXCEPT !.rep = rep,
                            !.saveErr = StoreSave(cleaned, m.file, env.save).err]]

-----------------------------------------------------------------------------
(* What the specifications of the manager share *)

C0 == <<"c0">>

\* a repository with the manifests rootTocs and subTocs, one branch "main"
Repo(rootTocs, subTocs) ==
    [ok |-> TRUE, head |-> "main", refs |-> [b \in {"main"} |-> C0],
     rootTocs |-> rootTocs, subTocs |-> subTocs]

\* an environment in which nothing fails
Smooth ==
    [clone |-> "ok", renameFails |-> FALSE, save |-> "ok", copyFails |-> FALSE,
     deleteFails |-> FALSE, removeFails |-> FALSE, fetchFails |-> FALSE]

\* a Manager right after NewManager and Load without a store file
NewManager ==
    [store |-> NewStoreManager, file |-> NoFile, root |-> NoRoot,
     backups |-> NoBackups]

\* the step of an operation that ends in the state r.m and returns r.ret
Becomes(r) ==
    /\ store' = r.m.store
    /\ file' = r.m.file
    /\ root' = r.m.root
    /\ backups' = r.m.backups
    /\ last' = r.ret

\* time passes
Tick ==
    /\ now < MaxTime
    /\ now' = now + 1
    /\ last' = Ret("Tick", NoName, "nil")
    /\ UNCHANGED <<store, file, wr, seen, root, remote, backups, made, tui, disk, reg, proc>>

\* the directory of name changes to d behind the manager's back
Outside(op, name, d) ==
    /\ root' = PutDir(root, name, d)
    /\ last' = Ret(op, name, "nil")
    /\ UNCHANGED <<store, file, wr, seen, remote, backups, made, tui, disk, reg, proc, now>>

-----------------------------------------------------------------------------
(* Updates: one installed addon, its user and its remote repository *)

UpdRemotes == [u \in {UrlA} |-> Repo(<<NameA>>, <<>>)]

InitUpd ==
    /\ LET m == Install(NewManager, UpdRemotes, UrlA, 0, Smooth).m
       IN  /\ store = m.store
           /\ file = m.file
           /\ root = m.root
           /\ backups = m.backups
    /\ wr = Idle
    /\ seen = NotSeen
    /\ remote = UpdRemotes
    /\ made = <<>>
    /\ tui = NoTui
    /\ disk = NoDisk
    /\ reg = NoReg
    /\ proc = NoProc
    /\ now = 0
    /\ last = Ret("init", NoName, "nil")

\* the user edits a file of the addon
UserEdit(name) ==
    /\ Exists(root, name)
    /\ ~root.dirs[name].tree.mod
    /\ Outside("UserEdit", name, [root.dirs[name] EXCEPT !.tree.mod = TRUE])

\* the user commits in the working copy
UserCommit(name) ==
    /\ IsGitRepo(root, name)
    /\ Len(root.dirs[name].head) < MaxHistory
    /\ LET c == Append(root.dirs[name].head, "l")
       IN  Outside("UserCommit", name,
                   [root.dirs[name] EXCEPT !.head = c,
                                           !.tree = [base |-> c, mod |-> FALSE]])

\* the user creates a branch and switches to it (git checkout -b)
UserBranch(name, b) ==
    /\ IsGitRepo(root, name)
    /\ root.dirs[name].branch # b
    /\ Outside("UserBranch", name, [root.dirs[name] EXCEPT !.branch = b])

\* the user removes the .git directory
UserDropsGit(name) ==
    /\ IsGitRepo(root, name)
    /\ Outside("UserDropsGit", name,
               [root.dirs[name] EXCEPT !.git = "none", !.origin = <<>>,
                                       !.branch = "", !.head = <<>>, !.refs = <<>>,
                                       !.tree.base = <<>>])

\* the maintainers push a commit to a branch of the remote repository
RemotePush(url, b) ==
    /\ Len(remote[url].refs[b]) < MaxHistory
    /\ remote' = [remote EXCEPT ![url].refs[b] = Append(@, "r")]
    /\ last' = Ret("RemotePush", NoName, "nil")
    /\ UNCHANGED <<store, file, wr, seen, root, backups, made, tui, disk, reg, proc, now>>

\* the maintainers rewrite the last commit of a branch (push --force)
RemoteRewrite(url, b) ==
    /\ Len(remote[url].refs[b]) > 1
    /\ Last(remote[url].refs[b]) = "r"
    /\ remote' = [remote EXCEPT ![url].refs[b] = Append(Front(@), "w")]
    /\ last' = Ret("RemoteRewrite", NoName, "nil")
    /\ UNCHANGED <<store, file, wr, seen, root, backups, made, tui, disk, reg, proc, now>>

\* m.Update(name, nil)
DoUpdate(name, env) ==
    /\ Becomes(Update(Mgr, remote, name, now, env))
    /\ UNCHANGED <<wr, seen, remote, made, tui, disk, reg, proc, now>>

UpdEnvs ==
    {[Smooth EXCEPT !.fetchFails = f, !.clone = c] :
        f \in BOOLEAN, c \in {"ok", "fail"}}

NextUpd ==
    \/ Tick
    \/ UserEdit(NameA)
    \/ UserCommit(NameA)
    \/ UserBranch(NameA, "dev")
    \/ UserDropsGit(NameA)
    \/ RemotePush(UrlA, "main")
    \/ RemoteRewrite(UrlA, "main")
    \/ \E env \in UpdEnvs : DoUpdate(NameA, env)

SpecUpd == InitUpd /\ [][NextUpd]_vars

\* C3: Update of a working copy with an uncommitted local modification fails
\* with ErrFFNotPossible before anything is fetched or reset: the directory
\* (working tree, HEAD, references), the store and its file, and the backups
\* are after the call what they were before it.
C3_DirtyUpdateRefused ==
    [][(/\ last'.op = "Update"
        /\ IsGitRepo(root, last'.name)
        /\ root.dirs[last'.name].tree.mod)
       => /\ last'.res = "ErrFFNotPossible"
          /\ root' = root
          /\ store' = store
          /\ file' = file
          /\ backups' = backups]_vars

\* C3, its case: Update has refused a modified working copy whose remote
\* has a commit the working copy has not fetched
C3_Witness ==
    /\ last.op = "Update"
    /\ last.res = "ErrFFNotPossible"
    /\ root.dirs[NameA].tree.mod
    /\ remote[UrlA].refs["main"] # root.dirs[NameA].refs["main"]

\* C4: whenever Update moves HEAD, the new HEAD commit is a descendant of the
\* previous one; when the resolved remote commit is not, HEAD and the
\* working tree stay as they are.
C4_FastForwardOrFail ==
    [][(last'.op = "Update" /\ IsGitRepo(root, last'.name)
        /\ IsGitRepo(root', last'.name))
       => LET old == root.dirs[last'.name]
              new == root'.dirs[last'.name]
          IN  \/ new.head = old.head /\ new.tree = old.tree
              \/ IsDescendant(new.head, old.head)]_vars

-----------------------------------------------------------------------------
(* Installs and repairs: one manager, the user who changes the addons root  *)
(* by hand, and a handful of repositories                                   *)

\* a URL without ".git" whose last component carries a branch suffix: the
\* folder name it derives is A
UrlAMain == <<"https://", "h", "/", "A", "-main">>

\* a repository whose name begins with a dot
UrlH == <<"https://", "h", "/", ".h", ".git">>

\* a URL ValidateGitURL refuses
UrlBad == <<"ftp://", "h", "/", "A", ".git">>

NameRaidUI == <<"Blizzard_RaidUI">>

\* a repository named as a bundled addon
UrlRaidUI == <<"https://", "h", "/", "Blizzard_RaidUI", ".git">>

\* the repositories: A with the manifest A.toc, A-main without manifest,
\* B with the manifest C.toc, .h and Blizzard_RaidUI without manifest
MgrRemotes ==
    [u \in {UrlA, NormalizeGitURL(UrlAMain), UrlB, UrlH, UrlRaidUI} |->
        CASE u = UrlA -> Repo(<<NameA>>, <<>>)
          [] u = UrlB -> Repo(<<NameC>>, <<>>)
          [] OTHER -> Repo(<<>>, <<>>)]

MgrUrls == {UrlA, UrlAMain, UrlB, UrlH, UrlBad}

\* how the clone and the rename of an Install end
InstallEnvs ==
    {Smooth, [Smooth EXCEPT !.clone = "fail"], [Smooth EXCEPT !.clone = "partial"],
     [Smooth EXCEPT !.renameFails = TRUE]}

\* how the save of a Repair ends
RepairEnvs == {Smooth, [Smooth EXCEPT !.save = "open"]}

\* what the user puts under the addons root by hand: a copied folder C whose
\* manifest is B.toc, a bundled addon, a clone of B's repository in B
UserDirs ==
    {<<NameC, PlainDir(<<NameB>>, <<>>)>>,
     <<NameRaidUI, PlainDir(<<>>, <<>>)>>,
     <<NameB, ClonedDir(UrlB, MgrRemotes[UrlB])>>}

\* the state getAddonManager leaves: the store loaded without a file, the
\* addons root created
InitMgr ==
    /\ store = NewManager.store
    /\ file = NewManager.file
    /\ root = EnsureAddonsDir(NewManager.root)
    /\ backups = NewManager.backups
    /\ wr = Idle
    /\ seen = NotSeen
    /\ remote = MgrRemotes
    /\ made = <<>>
    /\ tui = NoTui
    /\ disk = NoDisk
    /\ reg = NoReg
    /\ proc = NoProc
    /\ now = 0
    /\ last = Ret("init", NoName, "nil")

\* m.Install(url, nil)
DoInstall(url, env) ==
    /\ Becomes(Install(Mgr, remote, url, now, env))
    /\ UNCHANGED <<wr, seen, remote, made, tui, disk, reg, proc, now>>

\* m.Repair()
DoRepair(env) ==
    /\ LET r == Repair(Mgr, now, env)
       IN  Becomes([m |-> r.m,
                    ret |-> [r.ret EXCEPT !.again = (last.op = "Repair")]])
    /\ UNCHANGED <<wr, seen, remote, made, tui, disk, reg, proc, now>>

\* the user puts a directory under the addons root
UserAdds(name, d) ==
    /\ root.exists
    /\ ~Exists(root, name)
    /\ Outside("UserAdds", name, d)

\* the user deletes a directory under the addons root
UserDeletes(name) ==
    /\ Exists(root, name)
    /\ root' = RemoveDir(root, name)
    /\ last' = Ret("UserDeletes", name, "nil")
    /\ UNCHANGED <<store, file, wr, seen, remote, backups, made, tui, disk, reg, proc, now>>

\* the reference HEAD names is lost from a working copy
UserBreaksHead(name) ==
    /\ IsGitRepo(root, name)
    /\ root.dirs[name].git = "ok"
    /\ Outside("UserBreaksHead", name, [root.dirs[name] EXCEPT !.git = "badhead"])

\* the game directory goes away while the manager lives
RootRemoved ==
    /\ root.exists
    /\ root' = NoRoot
    /\ last' = Ret("RootRemoved", NoName, "nil")
    /\ UNCHANGED <<store, file, wr, seen, remote, backups, made, tui, disk, reg, proc, now>>

\* installs, with the user deleting what was installed
NextInstall ==
    \/ Tick
    \/ \E url \in MgrUrls, env \in InstallEnvs : DoInstall(url, env)
    \/ \E name \in {NameA, NameC} : UserDeletes(name)

SpecInstall == InitMgr /\ [][NextInstall]_vars

\* repairs, with installs in which nothing fails and the user changing the
\* addons root
NextRepair ==
    \/ Tick
    \/ \E url \in {UrlA, UrlH} : DoInstall(url, Smooth)
    \/ \E env \in RepairEnvs : DoRepair(env)
    \/ \E u \in UserDirs : UserAdds(u[1], u[2])
    \/ UserDeletes(NameA)
    \/ UserBreaksHead(NameA)
    \/ RootRemoved

SpecRepair == InitMgr /\ [][NextRepair]_vars

\* the folder name Install derives from the URL it is given
UrlName(url) == ExtractRepoName(NormalizeGitURL(url))

\* C1: when an Install has succeeded and the next call is an Install with a
\* valid URL that derives the same folder name, that call returns
\* ErrAddonExists and the addons root and the store stay as they are.
C1_InstallCollision ==
    [][(/\ last.op = "Install"
        /\ last.res = "nil"
        /\ last'.op = "Install"
        /\ ValidateGitURL(last'.url)
        /\ UrlName(last'.url) = UrlName(last.url))
       => (/\ last'.res = "ErrAddonExists"
           /\ root' = root
           /\ store' = store)]_vars

\* C2, as the specification states it: the second of two Repair calls in a
\* row reports IssuesFound = 0.
C2_SecondRepairFindsNothing ==
    [][(last'.op = "Repair" /\ last'.again) => last'.rep.IssuesFound = 0]_vars

\* C2, as the code has it: the second of two Repair calls in a row reports no
\* orphaned entry and no untracked directory with a resolvable remote, leaves
\* the store as it is, and its IssuesFound is the number of untracked
\* directories, corrupted repositories and name mismatches that remain.
C2_SecondRepairFixesNothing ==
    [][(last'.op = "Repair" /\ last'.again)
       => LET rep == last'.rep
              folders == ScannedFolders(root) \ defaultAddons
              untracked == {n \in folders : n \notin DOMAIN store}
              corrupted == {n \in folders :
                              /\ IsGitRepo(root, n)
                              /\ VerifyRepoIntegrity(root, n) # "nil"}
              mismatched == {n \in folders :
                              /\ FindTOCFile(root.dirs[n]).err = "nil"
                              /\ FindTOCFile(root.dirs[n]).name # n}
          IN  /\ rep.OrphanedEntries = <<>>
              /\ store' = store
              /\ \A n \in Range(rep.UntrackedAddons) :
                    GetRepoRemoteURL(root, n).err # "nil"
              /\ Range(rep.UntrackedAddons) = untracked
              /\ rep.IssuesFound = Cardinality(untracked) + Cardinality(corrupted)
                                   + Cardinality(mismatched)]_vars

\* a second Repair in a row that still finds issues, in a store that has
\* entries
C2_Witness ==
    /\ last.op = "Repair"
    /\ last.again
    /\ last.rep.IssuesFound > 0
    /\ DOMAIN store # {}

\* C5: Repair reports every store entry that has no non-hidden directory
\* under the addons root in OrphanedEntries and removes it from the store
\* and, when the save works, from the store file; after Repair every store
\* key names a scanned directory.
C5_RepairRemovesOrphans ==
    [][last'.op = "Repair"
       => /\ \A n \in DOMAIN store :
                n \notin ScannedFolders(root)
                => /\ n \in Range(last'.rep.OrphanedEntries)
                   /\ n \notin DOMAIN store'
                   /\ last'.saveErr = "nil"
                      => /\ file'.exists
                         /\ WellFormed(file'.data)
                         /\ n \notin DOMAIN UnmarshalStore(file'.data)
          /\ DOMAIN store' \subseteq ScannedFolders(root')]_vars

\* C10: after a successful Install the returned name is a directory under
\* the addons root, no directory is left under the URL-derived name when the
\* folder was renamed, the store maps the name to the normalized URL with
\* installedAt = updatedAt, and ListInstalled reports the addon with that URL.
C10_InstallPostcondition ==
    (last.op = "Install" /\ last.res = "nil")
    => /\ Exists(root, last.name)
       /\ root.dirs[last.name].kind = "dir"
       /\ last.name # UrlName(last.url) => ~Exists(root, UrlName(last.url))
       /\ StoreGet(store, last.name).ok
       /\ StoreGet(store, last.name).meta.url = NormalizeGitURL(last.url)
       /\ TimeEqual(StoreGet(store, last.name).meta.installedAt,
                    StoreGet(store, last.name).meta.updatedAt)
       /\ \E i \in DOMAIN ListInstalled(Mgr) :
             /\ ListInstalled(Mgr)[i].Name = last.name
             /\ ListInstalled(Mgr)[i].GitURL = NormalizeGitURL(last.url)

-----------------------------------------------------------------------------
(* Removals: installs in which nothing fails, the user who adds and deletes *)
(* entries of the addons root by hand, and Remove                           *)

\* how the backup, os.RemoveAll and the save of a Remove end
RemoveEnvs ==
    {Smooth, [Smooth EXCEPT !.copyFails = TRUE],
     [Smooth EXCEPT !.removeFails = TRUE], [Smooth EXCEPT !.save = "open"]}

\* what the user puts under the name C: a copied addon folder, or a regular
\* file
RemoveDirs == {PlainDir(<<NameC>>, <<>>), RegularFile}

\* m.Remove(name, createBackup)
DoRemove(name, createBackup, env) ==
    /\ Becomes(Remove(Mgr, name, createBackup, now, env))
    /\ UNCHANGED <<wr, seen, remote, made, tui, disk, reg, proc, now>>

NextRemove ==
    \/ Tick
    \/ DoInstall(UrlB, Smooth)
    \/ \E cb \in BOOLEAN, env \in RemoveEnvs : DoRemove(NameC, cb, env)
    \/ \E d \in RemoveDirs : UserAdds(NameC, d)
    \/ UserDeletes(NameC)

SpecRemove == InitMgr /\ [][NextRemove]_vars

\* whether the store file holds an entry for name
Persisted(f, name) ==
    /\ f.exists
    /\ WellFormed(f.data)
    /\ name \in DOMAIN UnmarshalStore(f.data)

\* C11: Remove of an existing directory either fails in os.RemoveAll or
\* returns nil, and then neither the directory nor a store entry of the name
\* is left (nor, when the save worked, an entry in the store file), with or
\* without a store entry before, with or without a backup, and when the
\* backup failed.
C11_RemoveLeavesAbsent ==
    [][(/\ last'.op = "Remove"
        /\ Exists(root, last'.name)
        /\ root.dirs[last'.name].kind = "dir")
       => \/ last'.res = "remove"
          \/ /\ last'.res = "nil"
             /\ ~Exists(root', last'.name)
             /\ ~StoreGet(store', last'.name).ok
             /\ last'.saveErr = "nil" => ~Persisted(file', last'.name)]_vars

\* a Remove that returned nil although its backup failed
C11_Witness ==
    /\ last.op = "Remove"
    /\ last.res = "nil"
    /\ last.backupErr # "nil"
    /\ ~Exists(root, last.name)

\* C12: Remove of a name under which no directory exists returns
\* ErrAddonNotFound and changes neither the addons root nor the store, its
\* file or the backups.
C12_RemoveAbsentChangesNothing ==
    [][(/\ last'.op = "Remove"
        /\ ~(Exists(root, last'.name) /\ root.dirs[last'.name].kind = "dir"))
       => /\ last'.res = "ErrAddonNotFound"
          /\ root' = root
          /\ store' = store
          /\ file' = file
          /\ backups' = backups]_vars

-----------------------------------------------------------------------------
(* UpdateAll: two installed addons, a hand-made clone without store entry,  *)
(* the user and the maintainers of A                                        *)

\* how the Update of one name inside UpdateAll ends
UpdateAllEnvs == {Smooth, [Smooth EXCEPT !.fetchFails = TRUE]}

\* m.UpdateAll()
DoUpdateAll(envs) ==
    /\ Becomes(UpdateAll(Mgr, remote, now, envs))
    /\ UNCHANGED <<wr, seen, remote, made, tui, disk, reg, proc, now>>

NextUpdateAll ==
    \/ \E url \in {UrlA, UrlB} : DoInstall(url, Smooth)
    \/ UserAdds(NameB, ClonedDir(UrlB, MgrRemotes[UrlB]))
    \/ UserEdit(NameA)
    \/ UserDropsGit(NameC)
    \/ UserDeletes(NameC)
    \/ RemotePush(UrlA, "main")
    \/ \E envs \in [{NameA, NameB, NameC} -> UpdateAllEnvs] : DoUpdateAll(envs)

SpecUpdateAll == InitMgr /\ [][NextUpdateAll]_vars

\* C13: UpdateAll calls Update once for every name the store holds when it
\* starts and for no other name, whatever the calls return; the three counts
\* add up to the number of calls and Errors has one entry per failure.
C13_UpdateAllCounts ==
    [][last'.op = "UpdateAll"
       => LET r == last'.all
          IN  /\ \A n \in DOMAIN store :
                    Cardinality({i \in DOMAIN r.Calls : r.Calls[i] = n}) = 1
              /\ Range(r.Calls) \subseteq DOMAIN store
              /\ r.Updated + r.Failed + r.Skipped = Len(r.Calls)
              /\ Len(r.Errors) = r.Failed]_vars

\* an UpdateAll over two tracked addons beside an untracked working copy, in
\* which one Update failed and another one re-cloned or updated
C13_Witness ==
    /\ last.op = "UpdateAll"
    /\ Len(last.all.Calls) = 2
    /\ last.all.Failed = 1
    /\ last.all.Updated = 1
    /\ Exists(root, NameB)
    /\ ~StoreGet(store, NameB).ok

-----------------------------------------------------------------------------
(* The interactive addons screen (ui/addons, Model): the view states, the   *)
(* key presses, the commands the screen starts, which run beside it, and    *)
(* the messages they deliver                                                *)

\* NewModel and Init: the list view, with loadAddons and checkUpdates started
NewModel ==
    [state |-> "viewList", items |-> <<>>, cursor |-> 1, selectedAddon |-> NoName,
     textInput |-> <<>>, checkingUpdates |-> TRUE, running |-> <<>>,
     loading |-> TRUE, quit |-> FALSE]

\* the keys of DefaultKeyMap, the keys the list moves its cursor with, "n"
TuiKeys == {"i", "d", "u", "U", "enter", "r", "q", "esc", "y", "n", "down", "up"}

\* m.list.SelectedItem()
SelectedItem(t) ==
    IF t.cursor \in DOMAIN t.items
    THEN [ok |-> TRUE, name |-> t.items[t.cursor]]
    ELSE [ok |-> FALSE, name |-> NoName]

\* a command that calls the manager: the operation and its argument
Command(op, name, url) == [op |-> op, name |-> name, url |-> url]

\* the model switches to the progress view and returns the command cmd,
\* which the runtime starts
StartCommand(t, cmd) ==
    [t EXCEPT !.state = "viewProgress", !.running = Append(@, cmd)]

\* m.list.Update(msg) for a key: the cursor moves
ListUpdate(t, k) ==
    CASE k = "down" /\ t.cursor < Len(t.items) -> [t EXCEPT !.cursor = @ + 1]
      [] k = "up" /\ t.cursor > 1 -> [t EXCEPT !.cursor = @ - 1]
      [] OTHER -> t

\* Model.updateList
UpdateList(t, k) ==
    LET item == SelectedItem(t)
    IN  CASE k = "i" -> [t EXCEPT !.state = "viewInstall", !.textInput = <<>>]
          [] k = "d" -> IF item.ok
                        THEN [t EXCEPT !.selectedAddon = item.name,
                                       !.state = "viewConfirmRemove"]
                        ELSE t
          [] k = "u" -> IF item.ok
                        THEN StartCommand([t EXCEPT !.selectedAddon = item.name],
                                          Command("Update", item.name, <<>>))
                        ELSE t
          [] k = "U" -> StartCommand(t, Command("UpdateAll", NoName, <<>>))
          [] k = "enter" -> IF item.ok
                            THEN [t EXCEPT !.selectedAddon = item.name,
                                           !.state = "viewInfo"]
                            ELSE t
          [] k = "r" -> StartCommand(t, Command("Repair", NoName, <<>>))
          [] OTHER -> ListUpdate(t, k)

\* Model.updateInstall (Esc is taken by the Back binding before)
UpdateInstall(t, k) ==
    IF k = "enter"
    THEN IF t.textInput = <<>> THEN t
         ELSE StartCommand(t, Command("Install", NoName, t.textInput))
    ELSE t

\* Model.updateConfirmRemove
UpdateConfirmRemove(t, k) ==
    CASE k = "y" -> IF t.selectedAddon # NoName
                    THEN StartCommand(t, Command("Remove", t.selectedAddon, <<>>))
                    ELSE [t EXCEPT !.state = "viewList"]
      [] k = "n" -> [t EXCEPT !.state = "viewList", !.selectedAddon = NoName]
      [] OTHER -> t

\* Model.updateInfo
UpdateInfo(t, k) ==
    IF k = "enter"
    THEN [t EXCEPT !.state = "viewList", !.selectedAddon = NoName]
    ELSE t

\* Model.Update for a tea.KeyMsg: the Quit and Back bindings come before the
\* handling by view state, and the progress view has no handling of its own
ModelUpdateKey(t, k) ==
    IF k = "q"
    THEN IF t.state = "viewList" THEN [t EXCEPT !.quit = TRUE]
         ELSE [t EXCEPT !.state = "viewList"]
    ELSE IF k = "esc" /\ t.state # "viewList"
    THEN [t EXCEPT !.state = "viewList"]
    ELSE CASE t.state = "viewList" -> UpdateList(t, k)
           [] t.state = "viewInstall" -> UpdateInstall(t, k)
           [] t.state = "viewConfirmRemove" -> UpdateConfirmRemove(t, k)
           [] t.state = "viewInfo" -> UpdateInfo(t, k)
           [] OTHER -> ListUpdate(t, k)

\* Model.Update for an operationCompleteMsg: back to the list, loadAddons
ModelUpdateComplete(t) == [t EXCEPT !.state = "viewList", !.loading = TRUE]

\* what the command cmd does to the manager (installAddon, removeAddon,
\* updateAddon, updateAllAddons, repairAddons), nothing failing
RunCommand(m, rem, cmd, t) ==
    CASE cmd.op = "Install" -> Install(m, rem, cmd.url, t, Smooth)
      [] cmd.op = "Remove" -> Remove(m, cmd.name, TRUE, t, Smooth)
      [] cmd.op = "Update" -> Update(m, rem, cmd.name, t, Smooth)
      [] cmd.op = "UpdateAll" ->
            UpdateAll(m, rem, t, [n \in DOMAIN m.store |-> Smooth])
      [] OTHER -> Repair(m, t, Smooth)

\* the sequence s without its i-th element
Without(s, i) == SubSeq(s, 1, i - 1) \o SubSeq(s, i + 1, Len(s))

InitTui ==
    /\ store = NewManager.store
    /\ file = NewManager.file
    /\ root = EnsureAddonsDir(NewManager.root)
    /\ backups = NewManager.backups
    /\ wr = Idle
    /\ seen = NotSeen
    /\ remote = MgrRemotes
    /\ made = <<>>
    /\ now = 0
    /\ tui = NewModel
    /\ disk = NoDisk
    /\ reg = NoReg
    /\ proc = NoProc
    /\ last = Ret("init", NoName, "nil")

TuiFrame ==
    UNCHANGED <<store, file, wr, seen, root, remote, backups, made, now, disk, reg, proc>>

\* the user presses the key k
KeyPress(k) ==
    /\ ~tui.quit
    /\ Len(ModelUpdateKey(tui, k).running) <= MaxInFlight
    /\ tui' = ModelUpdateKey(tui, k)
    /\ last' = Ret("KeyPress", NoName, "nil")
    /\ TuiFrame

\* the user types the URL url into the text input of the install view
TypeURL(url) ==
    /\ ~tui.quit
    /\ tui.state = "viewInstall"
    /\ tui' = [tui EXCEPT !.textInput = url]
    /\ last' = Ret("TypeURL", NoName, "nil")
    /\ TuiFrame

\* the i-th running command calls the manager and delivers its
\* operationCompleteMsg
OperationComplete(i) ==
    /\ ~tui.quit
    /\ i \in DOMAIN tui.running
    /\ Becomes(RunCommand(Mgr, remote, tui.running[i], now))
    /\ tui' = ModelUpdateComplete([tui EXCEPT !.running = Without(@, i)])
    /\ UNCHANGED <<wr, seen, remote, made, now, disk, reg, proc>>

\* loadAddons delivers its addonsLoadedMsg: the list takes the addons of
\* ListInstalled
AddonsLoaded ==
    /\ ~tui.quit
    /\ tui.loading
    /\ tui' = [tui EXCEPT !.loading = FALSE,
                          !.items = [i \in DOMAIN ListInstalled(Mgr) |->
                                        ListInstalled(Mgr)[i].Name]]
    /\ last' = Ret("AddonsLoaded", NoName, "nil")
    /\ TuiFrame

\* checkUpdates delivers its updatesCheckedMsg; hasUpdates: an update is
\* available for some addon, which makes the model load the addons again
UpdatesChecked(hasUpdates) ==
    /\ ~tui.quit
    /\ tui.checkingUpdates
    /\ tui' = [tui EXCEPT !.checkingUpdates = FALSE,
                          !.loading = @ \/ hasUpdates]
    /\ last' = Ret("UpdatesChecked", NoName, "nil")
    /\ TuiFrame

NextTui ==
    \/ \E k \in TuiKeys : KeyPress(k)
    \/ TypeURL(UrlA)
    \/ \E i \in 1..MaxInFlight : OperationComplete(i)
    \/ AddonsLoaded
    \/ \E b \in BOOLEAN : UpdatesChecked(b)

SpecTui == InitTui /\ [][NextTui]_vars

\* C14: at most one command that calls a mutating Manager operation is
\* running at any time: while one runs, no key press starts another.
C14_OneOperationInFlight == Len(tui.running) <= 1

-----------------------------------------------------------------------------
(* Two processes of the tool on the same data and game directories: each    *)
(* has its own in-memory store (store, and seen.store for the other one),   *)
(* both work on the same store file and addons root                         *)

\* the Manager of the other process
OtherMgr == [Mgr EXCEPT !.store = seen.store]

\* the other process installs url: m.Install, which saves its store
OtherInstall(url) ==
    /\ seen.err = "nil"
    /\ LET r == Install(OtherMgr, remote, url, now, Smooth)
       IN  /\ seen' = [seen EXCEPT !.store = r.m.store]
           /\ file' = r.m.file
           /\ root' = r.m.root
           /\ backups' = r.m.backups
           /\ last' = [r.ret EXCEPT !.op = "OtherInstall"]
    /\ UNCHANGED <<store, wr, remote, made, now, tui, disk, reg, proc>>

NextTwo ==
    \/ Load(FALSE)
    \/ OtherLoad
    \/ DoInstall(UrlA, Smooth)
    \/ OtherInstall(UrlB)
    \/ \E name \in {NameA, NameC} : UserDeletes(name)
    \/ Tick

SpecTwo == InitMgr /\ [][NextTwo]_vars

\* C15: a save writes the in-memory store of the saving process over the
\* file and merges nothing: after an Install of one process, no entry that
\* only the other process has in memory is in the store file.
C15_SaveOverwritesOtherProcess ==
    /\ (last.op = "OtherInstall" /\ last.res = "nil")
       => \A n \in DOMAIN store \ DOMAIN seen.store : ~Persisted(file, n)
    /\ (last.op = "Install" /\ last.res = "nil")
       => \A n \in DOMAIN seen.store \ DOMAIN store : ~Persisted(file, n)

\* both processes loaded the file, the first installed A, the other one C,
\* each saved: the file has the entry C and lacks the entry A, whose
\* directory is there
C15_Witness ==
    /\ last.op = "OtherInstall"
    /\ last.res = "nil"
    /\ StoreGet(store, NameA).ok
    /\ Exists(root, NameA)
    /\ StoreGet(seen.store, NameC).ok
    /\ Exists(root, NameC)
    /\ Persisted(file, NameC)
    /\ ~Persisted(file, NameA)

-----------------------------------------------------------------------------
(* Repairs with a bundled addon: its directory in several states, with and  *)
(* without store entry, beside a copied folder                              *)

\* what can stand under the name of a bundled addon: a plain directory
\* without manifest, a plain directory with another addon's manifest, a
\* working copy of B's repository (manifest C.toc) whose HEAD is lost
DefaultDirs ==
    {PlainDir(<<>>, <<>>), PlainDir(<<NameC>>, <<>>),
     [ClonedDir(UrlB, MgrRemotes[UrlB]) EXCEPT !.git = "badhead"]}

NextRepairDefault ==
    \/ DoInstall(UrlRaidUI, Smooth)
    \/ \E d \in DefaultDirs : UserAdds(NameRaidUI, d)
    \/ UserAdds(NameC, PlainDir(<<NameB>>, <<>>))
    \/ \E name \in {NameRaidUI, NameC} : UserDeletes(name)
    \/ UserBreaksHead(NameRaidUI)
    \/ \E env \in RepairEnvs : DoRepair(env)
    \/ Tick

SpecRepairDefault == InitMgr /\ [][NextRepairDefault]_vars

\* the manager state without the directories of bundled addons and without
\* the store entries of these directories
WithoutDefaults(m) ==
    LET gone == ScannedFolders(m.root) \cap defaultAddons
    IN  [m EXCEPT !.root.dirs = [n \in DOMAIN m.root.dirs \ gone |-> m.root.dirs[n]],
                  !.store = [n \in DOMAIN m.store \ gone |-> m.store[n]]]

\* C16: the directory of a bundled addon is in none of Repair's lists,
\* Repair reports the issues it reports without these directories and their
\* store entries, and it creates no store entry for them.
C16_DefaultAddonExempt ==
    [][(last'.op = "Repair" /\ root.exists)
       => LET rep == last'.rep
              other == Repair(WithoutDefaults(Mgr), now, Smooth).ret.rep
              bundled == ScannedFolders(root) \cap defaultAddons
          IN  /\ \A n \in bundled :
                    /\ n \notin Range(rep.OrphanedEntries)
                    /\ n \notin Range(rep.UntrackedAddons)
                    /\ n \notin Range(rep.CorruptedRepos)
                    /\ \A i \in DOMAIN rep.NameMismatches :
                          rep.NameMismatches[i][1] # n
                    /\ n \in DOMAIN store' <=> n \in DOMAIN store
              /\ rep.IssuesFound = other.IssuesFound
              /\ rep.UntrackedAddons = other.UntrackedAddons
              /\ rep.CorruptedRepos = other.CorruptedRepos
              /\ rep.NameMismatches = other.NameMismatches]_vars

\* a Repair that found nothing beside an untracked bundled addon whose
\* directory is a working copy with a lost HEAD and another addon's manifest
C16_Witness ==
    /\ last.op = "Repair"
    /\ last.rep.IssuesFound = 0
    /\ last.rep.TotalScanned = 1
    /\ IsGitRepo(root, NameRaidUI)
    /\ VerifyRepoIntegrity(root, NameRaidUI) # "nil"
    /\ FindTOCFile(root.dirs[NameRaidUI]).name = NameC
    /\ ~StoreGet(store, NameRaidUI).ok

-----------------------------------------------------------------------------
(* Listings: installed addons, hand-made clones and copied folders, a       *)
(* bundled addon, and ListInstalled                                         *)

\* m.ListInstalled()
DoListInstalled ==
    /\ last' = [Ret("ListInstalled", NoName, "nil")
                   EXCEPT !.addons = ListInstalled(Mgr)]
    /\ UNCHANGED <<store, file, wr, seen, root, remote, backups, made, now, tui, disk, reg, proc>>

\* what the user puts under the addons root: a clone of A's repository, a
\* copied folder C, a bundled addon
ListDirs ==
    {<<NameA, ClonedDir(UrlA, MgrRemotes[UrlA])>>,
     <<NameC, PlainDir(<<NameC>>, <<>>)>>,
     <<NameRaidUI, PlainDir(<<>>, <<>>)>>}

NextList ==
    \/ \E url \in {UrlB, UrlH} : DoInstall(url, Smooth)
    \/ \E u \in ListDirs : UserAdds(u[1], u[2])
    \/ \E name \in {NameA, NameC} : UserDeletes(name)
    \/ RootRemoved
    \/ DoListInstalled

SpecList == InitMgr /\ [][NextList]_vars

\* C17: ListInstalled returns the non-hidden directories under the addons
\* root, each once, bundled addons first, then the names with a store entry,
\* then the others, each group by lower-case name.
C17_ListInstalledOrder ==
    last.op = "ListInstalled"
    => LET l == last.addons
           StatusPriority(n) ==
               IF n \in defaultAddons THEN 0
               ELSE IF n \in DOMAIN store THEN 1 ELSE 2
       IN  /\ {l[i].Name : i \in DOMAIN l} = ScannedFolders(root)
           /\ Len(l) = Cardinality(ScannedFolders(root))
           /\ \A i, j \in DOMAIN l :
                 i < j => \/ StatusPriority(l[i].Name) < StatusPriority(l[j].Name)
                          \/ /\ StatusPriority(l[i].Name) = StatusPriority(l[j].Name)
                             /\ LowerRank(l[i].Name) < LowerRank(l[j].Name)

-----------------------------------------------------------------------------
(* GetInfo: installed addons, hand-made clones, manifests the user deletes  *)

\* m.GetInfo(name): ErrAddonNotFound when os.Stat finds nothing, else the
\* Addon
DoGetInfo(name) ==
    /\ last' = IF ~Exists(root, name)
               THEN Ret("GetInfo", name, "ErrAddonNotFound")
               ELSE [Ret("GetInfo", name, "nil")
                        EXCEPT !.addons = <<GetInfo(Mgr, name)>>]
    /\ UNCHANGED <<store, file, wr, seen, root, remote, backups, made, now, tui, disk, reg, proc>>

\* the user deletes the manifest files of an addon
UserDeletesManifest(name) ==
    /\ Exists(root, name)
    /\ root.dirs[name].kind = "dir"
    /\ Len(root.dirs[name].rootTocs) + Len(root.dirs[name].subTocs) > 0
    /\ Outside("UserDeletesManifest", name,
               [root.dirs[name] EXCEPT !.rootTocs = <<>>, !.subTocs = <<>>,
                                       !.tree.mod = root.dirs[name].git # "none"])

\* what the user puts under the addons root: a clone of B's repository in B,
\* a clone of A's repository in C, a regular file C
InfoDirs ==
    {<<NameB, ClonedDir(UrlB, MgrRemotes[UrlB])>>,
     <<NameC, ClonedDir(UrlA, MgrRemotes[UrlA])>>,
     <<NameC, RegularFile>>}

NextInfo ==
    \/ \E url \in {UrlA, UrlB} : DoInstall(url, Smooth)
    \/ \E u \in InfoDirs : UserAdds(u[1], u[2])
    \/ \E name \in {NameA, NameB, NameC} : UserDeletesManifest(name)
    \/ UserDeletes(NameC)
    \/ \E name \in {NameA, NameB, NameC} : DoGetInfo(name)
    \/ Tick

SpecInfo == InitMgr /\ [][NextInfo]_vars

\* C18: GetInfo leaves the store and its file as they are; with a store
\* entry for the name it returns the entry's URL and timestamps, whatever
\* the remote of the working copy is; without one it returns the URL of the
\* remote "origin" (nothing when there is none) and the store still has no
\* entry.
C18_GetInfoReadsOnly ==
    [][last'.op = "GetInfo"
       => /\ store' = store
          /\ file' = file
          /\ last'.res = "nil"
             => LET a == last'.addons[1]
                    g == StoreGet(store, last'.name)
                    u == GetRepoRemoteURL(root, last'.name)
                IN  IF g.ok
                    THEN /\ a.GitURL = g.meta.url
                         /\ a.InstalledAt = g.meta.installedAt
                         /\ a.UpdatedAt = g.meta.updatedAt
                    ELSE /\ a.GitURL = (IF u.err = "nil" THEN u.url ELSE <<>>)
                         /\ ~StoreGet(store', last'.name).ok]_vars

\* a GetInfo that returned the URL of the store entry for a working copy
\* whose remote is another repository
C18_Witness ==
    /\ last.op = "GetInfo"
    /\ last.res = "nil"
    /\ StoreGet(store, last.name).ok
    /\ GetRepoRemoteURL(root, last.name).err = "nil"
    /\ GetRepoRemoteURL(root, last.name).url # StoreGet(store, last.name).meta.url
    /\ last.addons[1].GitURL = StoreGet(store, last.name).meta.url

\* C19: GetInfo fails with ErrAddonNotFound only, and only when nothing
\* stands under the name; for an existing directory it returns an Addon,
\* with empty title, version and author when the directory has no manifest,
\* and with the URL of the store entry when there is one.
C19_GetInfoWithoutManifest ==
    last.op = "GetInfo"
    => /\ last.res # "nil"
          => last.res = "ErrAddonNotFound" /\ ~Exists(root, last.name)
       /\ (Exists(root, last.name) /\ root.dirs[last.name].kind = "dir")
          => /\ last.res = "nil"
             /\ FindTOCFile(root.dirs[last.name]).err # "nil"
                => /\ last.addons[1].Title = <<>>
                   /\ last.addons[1].Version = <<>>
                   /\ last.addons[1].Author = <<>>
             /\ StoreGet(store, last.name).ok
                => last.addons[1].GitURL = StoreGet(store, last.name).meta.url

\* GetInfo of an installed addon whose manifest was deleted: no error, no
\* title, the URL of the store entry
C19_Witness ==
    /\ last.op = "GetInfo"
    /\ last.res = "nil"
    /\ last.name = NameA
    /\ IsGitRepo(root, NameA)
    /\ root.dirs[NameA].tree.mod
    /\ FindTOCFile(root.dirs[NameA]).err # "nil"
    /\ last.addons[1].Title = <<>>
    /\ last.addons[1].GitURL = NormalizeGitURL(UrlA)

-----------------------------------------------------------------------------
(* Install and what is there already *)

\* C20: Install leaves every entry of the addons root that was there before
\* and its store entry as they were; when the manifest of the clone names a
\* directory that was there before, the call returns the URL-derived name,
\* the clone stands under that name and the new store entry is under it.
C20_InstallKeepsExisting ==
    [][last'.op = "Install"
       => /\ \A n \in DOMAIN root.dirs :
                /\ Exists(root', n)
                /\ root'.dirs[n] = root.dirs[n]
                /\ StoreGet(store', n) = StoreGet(store, n)
          /\ last'.res = "nil"
             => LET toc == FindTOCFile(root'.dirs[last'.name])
                IN  (/\ toc.name # <<>>
                     /\ toc.name # UrlName(last'.url)
                     /\ Exists(root, toc.name))
                    => /\ last'.name = UrlName(last'.url)
                       /\ ~Exists(root, last'.name)
                       /\ root'.dirs[last'.name].origin = NormalizeGitURL(last'.url)
                       /\ StoreGet(store', last'.name).ok
                       /\ StoreGet(store', last'.name).meta.url =
                             NormalizeGitURL(last'.url)]_vars

\* an Install whose clone kept the URL-derived name B because the directory
\* C its manifest names was there, with its store entry of an earlier time
C20_Witness ==
    /\ last.op = "Install"
    /\ last.res = "nil"
    /\ last.name = NameB
    /\ FindTOCFile(root.dirs[NameB]).name = NameC
    /\ Exists(root, NameC)
    /\ StoreGet(store, NameC).ok
    /\ StoreGet(store, NameB).ok
    /\ StoreGet(store, NameC).meta.updatedAt.t < StoreGet(store, NameB).meta.updatedAt.t

-----------------------------------------------------------------------------
(* Installs that fail *)

\* how the clone of an Install ends, a leftover that opens as a repository
\* included
InstallFailEnvs ==
    {Smooth} \cup {[Smooth EXCEPT !.clone = out] : out \in CloneOutcomes \ {"ok"}}

\* installs whose clone can fail in every way, with the user deleting
\* directories and the addons root going away
NextInstallFails ==
    \/ Tick
    \/ \E url \in {UrlA, UrlB, UrlBad}, env \in InstallFailEnvs : DoInstall(url, env)
    \/ \E name \in {NameA, NameB, NameC} : UserDeletes(name)
    \/ RootRemoved

SpecInstallFails == InitMgr /\ [][NextInstallFails]_vars

-----------------------------------------------------------------------------
(* Updates and the store: an installed addon, a working copy the store does *)
(* not hold, and their remote repositories                                  *)

\* how the fetch, the re-clone and the save of an Update end
UpdStoreEnvs ==
    {Smooth, [Smooth EXCEPT !.fetchFails = TRUE], [Smooth EXCEPT !.clone = "fail"],
     [Smooth EXCEPT !.save = "open"]}

NextUpdStore ==
    \/ Tick
    \/ DoInstall(UrlA, Smooth)
    \/ UserAdds(NameB, ClonedDir(UrlB, remote[UrlB]))
    \/ \E url \in {UrlA, UrlB} : RemotePush(url, "main")
    \/ UserDropsGit(NameA)
    \/ \E name \in {NameA, NameB, NameC}, env \in UpdStoreEnvs : DoUpdate(name, env)

SpecUpdStore == InitMgr /\ [][NextUpdStore]_vars

\* C22: Update(name) that returns Updated = true while the store holds an
\* entry for name sets updatedAt of that entry to the time of the call and
\* changes nothing else of the store; every other Update leaves the store
\* and its file as they were; no Update adds or removes a name or changes a
\* URL or an installedAt.
C22_UpdateRefreshesOnly ==
    [][last'.op = "Update"
       => LET n == last'.name
              g == StoreGet(store, n)
          IN  /\ IF last'.res \in {"updated", "recloned"} /\ g.ok
                 THEN /\ store'[n].updatedAt = TimeAt(now)
                      /\ \A k \in DOMAIN store \ {n} : store'[k] = store[k]
                 ELSE store' = store /\ file' = file
              /\ DOMAIN store' = DOMAIN store
              /\ \A k \in DOMAIN store :
                    /\ store'[k].url = store[k].url
                    /\ store'[k].installedAt = store[k].installedAt]_vars

\* an Update that has pulled a commit into the installed addon at a later
\* time than its installation
C22_Witness ==
    /\ last.op = "Update"
    /\ last.res = "updated"
    /\ last.name \in DOMAIN store
    /\ store[last.name].installedAt.t < store[last.name].updatedAt.t
    /\ store[last.name].updatedAt.t = now

-----------------------------------------------------------------------------
(* CreateBackup and what it leaves *)

\* C23: CreateBackup leaves the addon directory as it was; when the copy
\* fails it returns an error, no backup of the time of the call remains,
\* and every backup of the addon that was there before the call is there
\* after it, unchanged.
C23_FailedBackupKeepsOthers ==
    [][last'.op = "CreateBackup"
       => /\ root' = root
          /\ last'.res # "nil"
             => LET before == BackupsOf(backups, last'.name)
                    after == BackupsOf(backups', last'.name)
                IN  /\ FormatTimestamp(now) \notin DOMAIN after
                    /\ \A ts \in DOMAIN before :
                          ts \in DOMAIN after /\ after[ts] = before[ts]]_vars

-----------------------------------------------------------------------------
(* Backups and restores: one addon directory whose manifest the user      *)
(* replaces, the clock, and calls of CreateBackup and RestoreBackup        *)

\* the user replaces the manifest of the addon by one of another name
UserReplacesManifest(name, toc) ==
    /\ Exists(root, name)
    /\ root.dirs[name].rootTocs # <<toc>>
    /\ Outside("UserReplacesManifest", name, [root.dirs[name] EXCEPT !.rootTocs = <<toc>>])

\* bm.RestoreBackup(name, ts, filepath.Join(addonsDir, dest))
DoRestoreBackup(name, ts, dest, removeFails, copyFails) ==
    /\ root.exists
    /\ LET r == RestoreBackup(backups, root, name, ts, dest, removeFails, copyFails)
       IN  /\ root' = r.root
           /\ last' = [Ret("RestoreBackup", name, r.err)
                          EXCEPT !.ts = ts, !.url = dest]
    /\ UNCHANGED <<store, file, wr, seen, remote, backups, made, tui, disk, reg, proc, now>>

NextRestore ==
    \/ Tick
    \/ \E c \in BOOLEAN : DoCreateBackup(NameA, c, FALSE)
    \/ \E toc \in {NameA, NameB} : UserReplacesManifest(NameA, toc)
    \/ UserDeletes(NameA)
    \/ \E ts \in 0..FormatTimestamp(MaxTime), dest \in {NameA, NameB},
          rf \in BOOLEAN, cf \in BOOLEAN :
          DoRestoreBackup(NameA, ts, dest, rf, cf)

SpecRestore == InitBackup /\ [][NextRestore]_vars

\* C24: RestoreBackup of a backup that does not exist returns an error and
\* leaves the destination as it was; after a successful RestoreBackup the
\* destination is the content of the backup and nothing else; and after a
\* successful CreateBackup, RestoreBackup of the backup it made yields the
\* directory that was backed up.
C24_RestoreReproduces ==
    [][/\ last'.op = "RestoreBackup"
          => /\ last'.ts \notin DOMAIN BackupsOf(backups, last'.name)
                => last'.res # "nil" /\ root' = root
             /\ last'.res = "nil"
                => /\ Exists(root', last'.url)
                   /\ root'.dirs[last'.url] = backups[last'.name][last'.ts]
                   /\ backups' = backups
       /\ (last'.op = "CreateBackup" /\ last'.res = "nil")
          => LET r == RestoreBackup(backups', root', last'.name,
                                    FormatTimestamp(now), last'.name, FALSE, FALSE)
             IN  /\ r.err = "nil"
                 /\ r.root.dirs[last'.name] = root.dirs[last'.name]]_vars

-----------------------------------------------------------------------------
(* Launcher (launcher.go): the directories it derives from the environment *)
(* and Clean. A path is the sequence of its components; disk.files is the  *)
(* set of the paths that exist, directories and files alike.               *)

\* os.UserHomeDir()
HomeDir == <<"home">>

\* launcher.New: the paths of the Launcher under the environment env, in
\* which <<>> stands for a variable that is unset or empty
New(env) ==
    LET dataDir == (IF env.XDG_DATA_HOME = <<>>
                    THEN HomeDir \o <<".local", "share">>
                    ELSE env.XDG_DATA_HOME) \o <<"turtle-wow">>
        cacheDir == (IF env.XDG_CACHE_HOME = <<>>
                     THEN HomeDir \o <<".cache">>
                     ELSE env.XDG_CACHE_HOME) \o <<"turtle-wow">>
        gameDir == IF env.TURTLE_WOW_GAME_DIR = <<>>
                   THEN HomeDir \o <<"Games", "turtle-wow">>
                   ELSE env.TURTLE_WOW_GAME_DIR
    IN  [DataDir |-> dataDir, CacheDir |-> cacheDir, GameDir |-> gameDir,
         AppImagePath |-> cacheDir \o <<"TurtleWoW.AppImage">>,
         \* filepath.Join(dataDir, "..", "applications")
         DesktopDir |-> Front(dataDir) \o <<"applications">>,
         IconDir |-> Front(dataDir) \o <<"icons">>]

\* os.RemoveAll(p): p and everything under it
RemoveAll(files, p) == {q \in files : ~IsPrefix(p, q)}

\* os.Remove(p): a file, or a directory that is empty
OsRemove(files, p) ==
    IF \E q \in files : q # p /\ IsPrefix(p, q) THEN files ELSE files \ {p}

\* Launcher.Clean(includeGameFiles) on the paths files. fails: which
\* os.RemoveAll returns an error ("none", "data", "cache", "game"), taken
\* to have removed nothing.
Clean(l, files, includeGameFiles, fails) ==
    IF fails = "data" THEN [err |-> "data", files |-> files]
    ELSE
    LET f1 == RemoveAll(files, l.DataDir)
    IN  IF fails = "cache" THEN [err |-> "cache", files |-> f1]
        ELSE
        LET f2 == RemoveAll(f1, l.CacheDir)
            f3 == OsRemove(f2, l.DesktopDir \o <<"turtle-wow.desktop">>)
            f4 == OsRemove(f3, l.IconDir \o <<"turtle-wow.png">>)
        IN  IF ~includeGameFiles THEN [err |-> "nil", files |-> f4]
            ELSE IF fails = "game" THEN [err |-> "game", files |-> f4]
            ELSE [err |-> "nil", files |-> RemoveAll(f4, l.GameDir)]

\* what the launcher and the game have on disk after a first run
Installed(l) ==
    UNION {{SubSeq(p, 1, k) : k \in 1..Len(p)} :
              p \in {l.GameDir \o <<"WoW.exe">>,
                     l.DataDir \o <<"preferences.json">>,
                     l.AppImagePath,
                     l.DesktopDir \o <<"turtle-wow.desktop">>,
                     l.IconDir \o <<"turtle-wow.png">>}}

\* the environments: the defaults, XDG_DATA_HOME and XDG_CACHE_HOME set to
\* other directories (among them ~/Games), TURTLE_WOW_GAME_DIR set to
\* another disk, to a directory in the launcher's data directory, and to
\* ~/.local/share
CleanEnvs ==
    [XDG_DATA_HOME : {<<>>, HomeDir \o <<"Games">>, HomeDir \o <<"xdg">>},
     XDG_CACHE_HOME : {<<>>, HomeDir \o <<"xdg">>},
     TURTLE_WOW_GAME_DIR : {<<>>, <<"mnt", "wow">>,
                            HomeDir \o <<".local", "share", "turtle-wow", "game">>,
                            HomeDir \o <<".local", "share">>}]

InitClean ==
    /\ store = NewManager.store
    /\ file = NewManager.file
    /\ root = NewManager.root
    /\ backups = NewManager.backups
    /\ wr = Idle
    /\ seen = NotSeen
    /\ remote = <<>>
    /\ made = <<>>
    /\ tui = NoTui
    /\ reg = NoReg
    /\ proc = NoProc
    /\ now = 0
    /\ last = Ret("init", NoName, "nil")
    /\ \E env \in CleanEnvs : disk = [env |-> env, files |-> Installed(New(env))]

DiskFrame ==
    UNCHANGED <<store, file, wr, seen, root, remote, backups, made, now, tui, reg, proc>>

\* turtlectl clean, with --all when includeGameFiles
DoClean(includeGameFiles, fails) ==
    /\ LET r == Clean(New(disk.env), disk.files, includeGameFiles, fails)
       IN  /\ disk' = [disk EXCEPT !.files = r.files]
           /\ last' = [Ret("Clean", NoName, r.err) EXCEPT !.again = includeGameFiles]
    /\ DiskFrame

\* the launcher and the game run again and put their files back
Launch ==
    /\ disk.files # Installed(New(disk.env))
    /\ disk' = [disk EXCEPT !.files = @ \cup Installed(New(disk.env))]
    /\ last' = Ret("Launch", NoName, "nil")
    /\ DiskFrame

NextClean ==
    \/ \E g \in BOOLEAN, fails \in {"none", "data", "cache", "game"} : DoClean(g, fails)
    \/ Launch

SpecClean == InitClean /\ [][NextClean]_vars

\* C25: Clean(false) removes nothing at or under the game directory,
\* whatever the data, cache and game directory paths are; Clean(true) that
\* returns nil has removed the game directory.
C25_CleanKeepsGameFiles ==
    [][last'.op = "Clean"
       => LET l == New(disk.env)
          IN  /\ ~last'.again
                 => \A p \in disk.files : IsPrefix(l.GameDir, p) => p \in disk'.files
              /\ (last'.again /\ last'.res = "nil")
                 => l.GameDir \notin disk'.files]_vars

-----------------------------------------------------------------------------
(* Registry (wiki/registry.go): the catalog cache, its ETag, and the       *)
(* server. A catalog is the number of its edition, which is also its ETag; *)
(* 0 stands for none. reg.clock is the wall clock in hours.                *)

\* RegistryCacheTTL, in hours
RegistryCacheTTL == 24

\* loadCache returns a catalog: the file is there, readable, and parses
Cached(g) == g.cache.exists /\ g.cache.valid

\* a freshness test that takes a cache of exactly the TTL for fresh
IsFreshAtTTL(g) == g.clock - g.cache.mtime <= RegistryCacheTTL

\* cacheAge < RegistryCacheTTL, cacheAge being time.Since(cacheTime)
IsFresh(g) == g.clock - g.cache.mtime < RegistryCacheTTL

\* how a request ends: "ok" (the server answers), "neterr", "status" (an
\* answer that is neither 200 nor 304), "badbody" (200 with a body that
\* does not parse)
NetOutcomes == {"ok", "neterr", "status", "badbody"}

\* fetchFromGitHub. fresh = 0 with err = "nil" is the nil result of a 304.
FetchFromGitHub(g, net) ==
    CASE net = "neterr" -> [err |-> "fetch", fresh |-> 0, fetch |-> "neterr", reg |-> g]
      [] net = "status" -> [err |-> "status", fresh |-> 0, fetch |-> "status", reg |-> g]
      [] net = "badbody" -> [err |-> "parse", fresh |-> 0, fetch |-> "parse", reg |-> g]
      [] OTHER ->
           \* If-None-Match carries the stored ETag when there is one
           IF g.etag # 0 /\ g.etag = g.server
           THEN [err |-> "nil", fresh |-> 0, fetch |-> "304", reg |-> g]
           ELSE [err |-> "nil", fresh |-> g.server, fetch |-> "200",
                 reg |-> [g EXCEPT !.etag = g.server]]

\* saveCache
SaveCache(g, fresh) ==
    [g EXCEPT !.cache = [exists |-> TRUE, valid |-> TRUE, mtime |-> g.clock,
                         data |-> fresh]]

\* a touch that leaves the modification time
TouchNothing(g) == g

\* touchCache: os.Chtimes(cachePath, now, now)
TouchCache(g) == [g EXCEPT !.cache.mtime = g.clock]

\* Registry.GetAddons(forceRefresh). net: how the request ends, if one is
\* made; saveFails: saveCache returns an error, which is logged only.
GetAddons(g, forceRefresh, net, saveFails) ==
    IF Cached(g) /\ ~forceRefresh /\ IsFresh(g)
    THEN [err |-> "nil", addons |-> g.cache.data, fetch |-> "none", reg |-> g]
    ELSE
    LET f == FetchFromGitHub(g, net)
    IN  IF f.err # "nil"
        THEN IF Cached(g)
             THEN [err |-> "nil", addons |-> g.cache.data, fetch |-> f.fetch,
                   reg |-> f.reg]
             ELSE [err |-> "no cache available", addons |-> 0, fetch |-> f.fetch,
                   reg |-> f.reg]
        ELSE IF f.fresh = 0
        THEN IF Cached(g)
             THEN [err |-> "nil", addons |-> g.cache.data, fetch |-> f.fetch,
                   reg |-> TouchCache(f.reg)]
             ELSE [err |-> "not-modified but no cache", addons |-> 0,
                   fetch |-> f.fetch, reg |-> f.reg]
        ELSE [err |-> "nil", addons |-> f.fresh, fetch |-> f.fetch,
              reg |-> IF saveFails THEN f.reg ELSE SaveCache(f.reg, f.fresh)]

InitRegistry ==
    /\ store = NewManager.store
    /\ file = NewManager.file
    /\ root = NewManager.root
    /\ backups = NewManager.backups
    /\ wr = Idle
    /\ seen = NotSeen
    /\ remote = <<>>
    /\ made = <<>>
    /\ tui = NoTui
    /\ disk = NoDisk
    /\ reg = NoReg
    /\ proc = NoProc
    /\ now = 0
    /\ last = Ret("init", NoName, "nil")

RegFrame ==
    UNCHANGED <<store, file, wr, seen, root, remote, backups, made, now, tui, disk, proc>>

\* registry.GetAddons(forceRefresh)
DoGetAddons(forceRefresh, net, saveFails) ==
    /\ LET r == GetAddons(reg, forceRefresh, net, saveFails)
       IN  /\ reg' = r.reg
           /\ last' = [Ret("GetAddons", NoName, r.err)
                          EXCEPT !.force = forceRefresh, !.fetch = r.fetch,
                                 !.ts = r.addons]
    /\ RegFrame

\* half a TTL passes
HoursPass ==
    /\ reg.clock + RegistryCacheTTL \div 2 <= 2 * RegistryCacheTTL
    /\ reg' = [reg EXCEPT !.clock = @ + RegistryCacheTTL \div 2]
    /\ last' = Ret("HoursPass", NoName, "nil")
    /\ RegFrame

\* the maintainers publish a new catalog
ServerPublishes ==
    /\ reg.server < MaxCatalog
    /\ reg' = [reg EXCEPT !.server = @ + 1]
    /\ last' = Ret("ServerPublishes", NoName, "nil")
    /\ RegFrame

\* the user deletes the cache file
UserDeletesCache ==
    /\ reg.cache.exists
    /\ reg' = [reg EXCEPT !.cache = NoReg.cache]
    /\ last' = Ret("UserDeletesCache", NoName, "nil")
    /\ RegFrame

\* the cache file becomes unreadable or no longer parses
CacheBreaks ==
    /\ Cached(reg)
    /\ reg' = [reg EXCEPT !.cache.valid = FALSE]
    /\ last' = Ret("CacheBreaks", NoName, "nil")
    /\ RegFrame

NextRegistry ==
    \/ \E f \in BOOLEAN, net \in NetOutcomes, s \in BOOLEAN : DoGetAddons(f, net, s)
    \/ HoursPass
    \/ ServerPublishes
    \/ UserDeletesCache
    \/ CacheBreaks

SpecRegistry == InitRegistry /\ [][NextRegistry]_vars

\* C26: GetAddons(false) with a readable cache younger than RegistryCacheTTL
\* returns the cached catalog, makes no request and changes nothing; with
\* forceRefresh, or with a readable cache whose age is the TTL or more, it
\* makes a request.
C26_FreshCacheNoRequest ==
    [][last'.op = "GetAddons"
       => LET age == reg.clock - reg.cache.mtime
          IN  /\ (~last'.force /\ Cached(reg) /\ age < RegistryCacheTTL)
                 => /\ last'.fetch = "none"
                    /\ last'.res = "nil"
                    /\ last'.ts = reg.cache.data
                    /\ reg' = reg
              /\ (last'.force \/ (Cached(reg) /\ age >= RegistryCacheTTL))
                 => last'.fetch # "none"]_vars

\* GetAddons(false) has answered from a cache that is half a TTL old while
\* the server has a newer catalog; and a cache of exactly the TTL exists
C26_Witness ==
    /\ last.op = "GetAddons"
    /\ ~last.force
    /\ last.fetch = "none"
    /\ Cached(reg)
    /\ reg.clock - reg.cache.mtime = RegistryCacheTTL \div 2
    /\ last.ts = reg.cache.data
    /\ reg.cache.data < reg.server

-----------------------------------------------------------------------------
(* Updates of directories that are no working copies: an installed addon   *)
(* that lost its .git directory, and a copied folder the store does not    *)
(* hold                                                                     *)

\* how the backup, the removal and the clone of a re-clone end
RecloneEnvs ==
    {Smooth, [Smooth EXCEPT !.copyFails = TRUE], [Smooth EXCEPT !.removeFails = TRUE],
     [Smooth EXCEPT !.clone = "fail"], [Smooth EXCEPT !.clone = "partial"]}

NextReclone ==
    \/ Tick
    \/ DoInstall(UrlA, Smooth)
    \/ UserAdds(NameB, PlainDir(<<NameB>>, <<>>))
    \/ UserDropsGit(NameA)
    \/ UserReplacesManifest(NameA, NameB)
    \/ \E name \in {NameA, NameB}, env \in RecloneEnvs : DoUpdate(name, env)

SpecReclone == InitMgr /\ [][NextReclone]_vars

-----------------------------------------------------------------------------
(* Repair and the working copies the store does not hold *)

\* C29: after Repair, every scanned directory that is no bundled addon, had
\* no store entry and is a working copy with an origin URL has a store
\* entry with that URL and is listed in UntrackedAddons of the run; the
\* store entry of every scanned directory that had one is as it was.
C29_RepairAutoTracks ==
    [][(last'.op = "Repair" /\ root.exists)
       => \A n \in ScannedFolders(root) :
             /\ (/\ ~IsDefaultAddon(n)
                 /\ n \notin DOMAIN store
                 /\ GetRepoRemoteURL(root, n).err = "nil")
                => /\ n \in DOMAIN store'
                   /\ store'[n].url = root.dirs[n].origin
                   /\ \E i \in DOMAIN last'.rep.UntrackedAddons :
                         last'.rep.UntrackedAddons[i] = n
             /\ n \in DOMAIN store
                => n \in DOMAIN store' /\ store'[n] = store[n]]_vars

\* a Repair that has given the hand-made clone B its store entry and listed
\* it as untracked, next to an addon installed before
C29_Witness ==
    /\ last.op = "Repair"
    /\ \E i \in DOMAIN last.rep.UntrackedAddons : last.rep.UntrackedAddons[i] = NameB
    /\ NameB \in DOMAIN store
    /\ store[NameB].url = UrlB
    /\ NameA \in DOMAIN store
    /\ store[NameA].installedAt.t < store[NameB].installedAt.t

-----------------------------------------------------------------------------
(* Installs and titles: repositories with the manifest at the root, one    *)
(* level down, without title, and none                                     *)

NameS == <<"S">>

NameT == <<"T">>

NameN == <<"N">>

UrlS == <<"https://", "h", "/", "S", ".git">>

UrlT == <<"https://", "h", "/", "T", ".git">>

UrlN == <<"https://", "h", "/", "N", ".git">>

\* the repositories: A with A.toc, B with C.toc, S with S.toc one level
\* down, T with A.toc one level down, N with a manifest without title, and
\* A-main without manifest
TitleRemotes ==
    [u \in {UrlA, UrlB, UrlS, UrlT, UrlN, NormalizeGitURL(UrlAMain)} |->
        CASE u = UrlA -> Repo(<<NameA>>, <<>>)
          [] u = UrlB -> Repo(<<NameC>>, <<>>)
          [] u = UrlS -> Repo(<<>>, <<NameS>>)
          [] u = UrlT -> Repo(<<>>, <<NameA>>)
          [] u = UrlN -> Repo(<<NameN>>, <<>>)
          [] OTHER -> Repo(<<>>, <<>>)]

InitTitle ==
    /\ store = NewManager.store
    /\ file = NewManager.file
    /\ root = EnsureAddonsDir(NewManager.root)
    /\ backups = NewManager.backups
    /\ wr = Idle
    /\ seen = NotSeen
    /\ remote = TitleRemotes
    /\ made = <<>>
    /\ tui = NoTui
    /\ disk = NoDisk
    /\ reg = NoReg
    /\ proc = NoProc
    /\ now = 0
    /\ last = Ret("init", NoName, "nil")

NextTitle ==
    \/ \E url \in {UrlA, UrlB, UrlS, UrlT, UrlN, UrlAMain},
          env \in {Smooth, [Smooth EXCEPT !.renameFails = TRUE]} : DoInstall(url, env)
    \/ \E name \in {NameA, NameC, NameS, NameT} : UserDeletes(name)

SpecTitle == InitTitle /\ [][NextTitle]_vars

\* C30: the Title Install returns is the title of the manifest FindTOCFile
\* locates in the installed folder when that manifest has a title, and the
\* folder name when it has none or there is no manifest; for a manifest in
\* the folder itself and for one a level down, renamed or not.
C30_InstallTitle ==
    [][(last'.op = "Install" /\ last'.res = "nil")
       => LET toc == FindTOCFile(root'.dirs[last'.name])
              manifestTitle == IF toc.err = "nil" THEN TitleOf(toc.name) ELSE <<>>
          IN  last'.title = IF manifestTitle # <<>> THEN manifestTitle
                            ELSE last'.name]_vars

-----------------------------------------------------------------------------
(* The counts of a repair report *)

\* no element of the list s stands in it twice
NoDuplicates(s) == \A i, j \in DOMAIN s : s[i] = s[j] => i = j

\* C31: the report of every Repair has IssuesFound equal to the sum of the
\* lengths of its four lists and TotalScanned equal to the number of
\* non-hidden directories under the addons root, and none of the four lists
\* holds an element twice.
C31_RepairCounts ==
    last.op = "Repair"
    => /\ last.rep.IssuesFound =
            Len(last.rep.OrphanedEntries) + Len(last.rep.UntrackedAddons)
            + Len(last.rep.CorruptedRepos) + Len(last.rep.NameMismatches)
       /\ last.rep.TotalScanned =
            Cardinality({n \in DOMAIN root.dirs :
                            root.dirs[n].kind = "dir" /\ ~IsHidden(n)})
       /\ NoDuplicates(last.rep.OrphanedEntries)
       /\ NoDuplicates(last.rep.UntrackedAddons)
       /\ NoDuplicates(last.rep.CorruptedRepos)
       /\ NoDuplicates(last.rep.NameMismatches)
       /\ NoDuplicates([i \in DOMAIN last.rep.NameMismatches |->
                            last.rep.NameMismatches[i][1]])

\* a Repair over a root with a hidden directory, in which one folder is
\* both untracked and misnamed and a store entry is orphaned
C31_Witness ==
    /\ last.op = "Repair"
    /\ \E n \in DOMAIN root.dirs : IsHidden(n)
    /\ \E i \in DOMAIN last.rep.UntrackedAddons,
          j \in DOMAIN last.rep.NameMismatches :
            last.rep.UntrackedAddons[i] = last.rep.NameMismatches[j][1]
    /\ Len(last.rep.OrphanedEntries) > 0
    /\ last.rep.TotalScanned >= 2
    /\ last.rep.IssuesFound >= 3

-----------------------------------------------------------------------------
(* Store keys and directories: every operation of the manager, with the    *)
(* failures of clone, fetch, rename, removal and save, and nothing else    *)
(* touching the addons root                                                *)

\* the name A as a shell completes it for a directory: "A/"
NameASlash == NameA \o <<"/">>

\* the names Remove and Update are called with
KeyNames == {NameA, NameASlash, NameC}

KeyInstallEnvs ==
    {Smooth, [Smooth EXCEPT !.clone = "fail"], [Smooth EXCEPT !.clone = "partial"],
     [Smooth EXCEPT !.clone = "repo"], [Smooth EXCEPT !.renameFails = TRUE]}

KeyRemoveEnvs ==
    {Smooth, [Smooth EXCEPT !.removeFails = TRUE], [Smooth EXCEPT !.save = "open"]}

KeyUpdateEnvs ==
    {Smooth, [Smooth EXCEPT !.clone = "fail"], [Smooth EXCEPT !.fetchFails = TRUE]}

\* the remote of A gets a new commit on its branch main
KeyRemotePush ==
    /\ remote[UrlA].refs["main"] = C0
    /\ RemotePush(UrlA, "main")

NextKeys ==
    \/ KeyRemotePush
    \/ \E url \in {UrlA, UrlB}, env \in KeyInstallEnvs : DoInstall(url, env)
    \/ \E name \in KeyNames, cb \in BOOLEAN, env \in KeyRemoveEnvs :
          DoRemove(name, cb, env)
    \/ \E name \in KeyNames, env \in KeyUpdateEnvs : DoUpdate(name, env)
    \/ \E env \in KeyUpdateEnvs : DoUpdateAll([n \in DOMAIN store |-> env])
    \/ \E env \in RepairEnvs : DoRepair(env)

SpecKeys == InitMgr /\ [][NextKeys]_vars

\* C32: from an empty store and an empty addons root, after any sequence of
\* Install, Remove, Update, UpdateAll and Repair calls, failed ones
\* included, every key of the store names an existing directory under the
\* addons root.
C32_KeysNameDirectories ==
    \A n \in DOMAIN store : Exists(root, n) /\ root.dirs[n].kind = "dir"

-----------------------------------------------------------------------------
(* One invocation of the tool: getAddonManager loads the store file, a     *)
(* command works on the Manager and saveAddonManager saves the store       *)

\* the entries a store file holds, as its text has them
FileEntries(f) == {f.data[i] : i \in {j \in DOMAIN f.data : f.data[j][1] = "entry"}}

\* the store a previous invocation saved: A, installed at time 0
SavedStore == [n \in {NameA} |-> NewMeta(UrlA, TimeAt(0))]

\* the store file an invocation finds: none, the document of SavedStore, or
\* that document without its closing brace
FoundFiles ==
    {NoFile, FileOf(MarshalStore(SavedStore)), FileOf(Front(MarshalStore(SavedStore)))}

InitInvocation ==
    /\ store = NewManager.store
    /\ file \in FoundFiles
    /\ root = RootOf([n \in {NameA} |-> ClonedDir(UrlA, MgrRemotes[UrlA])])
    /\ backups = NewManager.backups
    /\ wr = Idle
    /\ seen = NotSeen
    /\ remote = MgrRemotes
    /\ made = <<>>
    /\ tui = NoTui
    /\ disk = NoDisk
    /\ reg = NoReg
    /\ proc = NoProc
    /\ now = 1
    /\ last = Ret("init", NoName, "nil")

\* getAddonManager: NewManager, Load with its error logged only, and
\* EnsureAddonsDir; seen keeps the outcome of the Load and the file it read
GetAddonManager(readErr) ==
    /\ seen.err = "none"
    /\ LET r == StoreLoad(NewManager.store, file, readErr)
       IN  /\ store' = r.store
           /\ seen' = [err |-> r.err, store |-> r.store, file |-> file]
           /\ last' = Ret("getAddonManager", NoName, r.err)
    /\ root' = EnsureAddonsDir(root)
    /\ UNCHANGED <<file, wr, remote, backups, made, tui, disk, reg, proc, now>>

\* saveAddonManager after the operation that ended as r: the store is saved,
\* an error is logged only
SaveAddonManager(r, out) ==
    [r EXCEPT !.m.file = StoreSave(r.m.store, r.m.file, out).file]

\* what a command leaves: the Manager's operation, and saveAddonManager
\* when the command gets that far
CommandEnds(r, saves, out) ==
    /\ seen.err # "none"
    /\ Becomes(IF saves THEN SaveAddonManager(r, out) ELSE r)
    /\ UNCHANGED <<wr, seen, remote, made, tui, disk, reg, proc, now>>

\* addons install <url>
CmdInstall(url, env, out) ==
    LET r == Install(Mgr, remote, url, now, env)
    IN  CommandEnds(r, r.ret.res = "nil", out)

\* addons remove <name>
CmdRemove(name, createBackup, env, out) ==
    LET r == Remove(Mgr, name, createBackup, now, env)
    IN  CommandEnds(r, r.ret.res = "nil", out)

\* addons update <name>
CmdUpdate(name, env, out) ==
    LET r == Update(Mgr, remote, name, now, env)
    IN  CommandEnds(r, r.ret.res \in {"updated", "recloned", "AlreadyUpToDate"}, out)

\* addons repair
CmdRepair(env, out) ==
    LET r == Repair(Mgr, now, env)
    IN  CommandEnds(r, r.ret.rep.IssuesFound > 0, out)

InvocationSaves == {"ok", "open"}

NextInvocation ==
    \/ \E readErr \in BOOLEAN : GetAddonManager(readErr)
    \/ KeyRemotePush
    \/ \E url \in {UrlA, UrlB}, env \in {Smooth, [Smooth EXCEPT !.save = "open"]},
          out \in InvocationSaves : CmdInstall(url, env, out)
    \/ \E name \in {NameA, NameC}, cb \in BOOLEAN,
          env \in {Smooth, [Smooth EXCEPT !.save = "open"]},
          out \in InvocationSaves : CmdRemove(name, cb, env, out)
    \/ \E name \in {NameA, NameC}, env \in {Smooth, [Smooth EXCEPT !.save = "open"]},
          out \in InvocationSaves : CmdUpdate(name, env, out)
    \/ \E env \in RepairEnvs, out \in InvocationSaves : CmdRepair(env, out)

SpecInvocation == InitInvocation /\ [][NextInvocation]_vars

\* C33: when the Load of getAddonManager has failed, the entries the store
\* file held at that moment are in the file after every command of the
\* invocation.
C33_FailedLoadKeepsFile ==
    seen.err \notin {"none", "nil"}
    => FileEntries(seen.file) \subseteq FileEntries(file)

-----------------------------------------------------------------------------
(* Remove(A) and Update(A) of one Manager side by side: each call is the   *)
(* sequence of its file system calls and of its calls of the store, which  *)
(* the store's lock makes atomic one by one                                *)

\* the remote of A one commit ahead of what was cloned
AheadRemotes == [MgrRemotes EXCEPT ![UrlA].refs["main"] = Append(@, "r")]

\* A is installed and tracked; its directory is the clone, or what is left
\* of it without the repository; both calls are about to begin
InitRace ==
    /\ store = [n \in {NameA} |-> NewMeta(UrlA, TimeAt(0))]
    /\ file = FileOf(MarshalStore(store))
    /\ root \in {RootOf([n \in {NameA} |-> d]) :
                    d \in {ClonedDir(UrlA, MgrRemotes[UrlA]),
                           PlainDir(<<NameA>>, <<>>)}}
    /\ remote \in {MgrRemotes, AheadRemotes}
    /\ backups = NoBackups
    /\ wr = Idle
    /\ seen = NotSeen
    /\ made = <<>>
    /\ tui = NoTui
    /\ disk = NoDisk
    /\ reg = NoReg
    /\ proc = [rm |-> [pc |-> "stat"], up |-> [pc |-> "stat", meta |-> NoMeta]]
    /\ now = 1
    /\ last = Ret("init", NoName, "nil")

\* a step of Remove(A, true) that leaves it at pc
RemoveAt(pc) ==
    /\ proc' = [proc EXCEPT !.rm.pc = pc]
    /\ last' = Ret("Remove", NameA, pc)
    /\ UNCHANGED <<wr, seen, remote, made, tui, disk, reg, now>>

\* a step of Update(A) that leaves it at pc with the local meta
UpdateAt(pc, meta) ==
    /\ proc' = [proc EXCEPT !.up = [pc |-> pc, meta |-> meta]]
    /\ last' = Ret("Update", NameA, pc)
    /\ UNCHANGED <<wr, seen, remote, made, tui, disk, reg, now>>

\* Remove: os.Stat(addonPath)
RemoveStat ==
    /\ proc.rm.pc = "stat"
    /\ RemoveAt(IF Exists(root, NameA) THEN "backup" ELSE "ErrAddonNotFound")
    /\ UNCHANGED <<store, file, root, backups>>

\* Remove: m.backup.CreateBackup, a failure is logged
RemoveBackup ==
    /\ proc.rm.pc = "backup"
    /\ backups' = CreateBackup(backups, root, NameA, now, FALSE, FALSE).backups
    /\ RemoveAt("removeAll")
    /\ UNCHANGED <<store, file, root>>

\* Remove: os.RemoveAll(addonPath); removeFails: it returns an error
RemoveRemoveAll(removeFails) ==
    /\ proc.rm.pc = "removeAll"
    /\ root' = IF removeFails THEN root ELSE RemoveDir(root, NameA)
    /\ RemoveAt(IF removeFails THEN "remove" ELSE "delete")
    /\ UNCHANGED <<store, file, backups>>

\* Remove: m.store.Delete(name)
RemoveDelete ==
    /\ proc.rm.pc = "delete"
    /\ store' = StoreDelete(store, NameA)
    /\ RemoveAt("save")
    /\ UNCHANGED <<file, root, backups>>

\* Remove: m.store.Save(), and the return of nil
RemoveSave ==
    /\ proc.rm.pc = "save"
    /\ file' = StoreSave(store, file, "ok").file
    /\ RemoveAt("nil")
    /\ UNCHANGED <<store, root, backups>>

\* Update: os.Stat(addonPath)
UpdateStat ==
    /\ proc.up.pc = "stat"
    /\ UpdateAt(IF Exists(root, NameA) THEN "isGitRepo" ELSE "ErrAddonNotFound",
                NoMeta)
    /\ UNCHANGED <<store, file, root, backups>>

\* Update: IsGitRepo(addonPath)
UpdateIsGitRepo ==
    /\ proc.up.pc = "isGitRepo"
    /\ UpdateAt(IF IsGitRepo(root, NameA) THEN "updateRepo" ELSE "get", NoMeta)
    /\ UNCHANGED <<store, file, root, backups>>

\* Update: UpdateRepo(addonPath) and what Update makes of its error
UpdateUpdateRepo(fetchFails) ==
    /\ proc.up.pc = "updateRepo"
    /\ LET u == IF Exists(root, NameA)
                THEN UpdateRepo(root.dirs[NameA], remote, fetchFails)
                ELSE [err |-> "ErrNotGitRepo", dir |-> PartialDir]
       IN  /\ root' = IF Exists(root, NameA) THEN PutDir(root, NameA, u.dir)
                       ELSE root
           /\ UpdateAt(CASE u.err = "nil" -> "getUpdated"
                         [] u.err = "ErrAlreadyUpToDate" -> "AlreadyUpToDate"
                         [] OTHER -> u.err, NoMeta)
    /\ UNCHANGED <<store, file, backups>>

\* Update after UpdateRepo: m.store.Get(name); without an entry the call
\* returns
UpdateGetUpdated ==
    /\ proc.up.pc = "getUpdated"
    /\ LET g == StoreGet(store, NameA)
       IN  UpdateAt(IF g.ok THEN "set" ELSE "updated", g.meta)
    /\ UNCHANGED <<store, file, root, backups>>

\* Update of a directory that is no repository: m.store.Get(name)
UpdateGet ==
    /\ proc.up.pc = "get"
    /\ LET g == StoreGet(store, NameA)
       IN  UpdateAt(IF HasStoredURL(g) THEN "backup" ELSE "no stored URL", g.meta)
    /\ UNCHANGED <<store, file, root, backups>>

\* Update: m.backup.CreateBackup before the re-clone
UpdateBackup ==
    /\ proc.up.pc = "backup"
    /\ backups' = CreateBackup(backups, root, NameA, now, FALSE, FALSE).backups
    /\ UpdateAt("removeAll", proc.up.meta)
    /\ UNCHANGED <<store, file, root>>

\* Update: os.RemoveAll(addonPath) before the re-clone
UpdateRemoveAll(removeFails) ==
    /\ proc.up.pc = "removeAll"
    /\ root' = IF removeFails THEN root ELSE RemoveDir(root, NameA)
    /\ UpdateAt(IF removeFails THEN "remove" ELSE "clone", proc.up.meta)
    /\ UNCHANGED <<store, file, backups>>

\* Update: CloneRepo(meta.GitURL, addonPath) with the remote in reach; into
\* a directory that is there again the clone fails
UpdateClone ==
    /\ proc.up.pc = "clone"
    /\ LET c == IF Exists(root, NameA) THEN [err |-> "clone", root |-> root]
                ELSE CloneRepo(root, remote, proc.up.meta.url, NameA, "ok")
       IN  /\ root' = c.root
           /\ UpdateAt(IF c.err = "nil" THEN "set" ELSE "clone failed",
                       proc.up.meta)
    /\ UNCHANGED <<store, file, backups>>

\* Update: meta.UpdatedAt = time.Now(); m.store.Set(name, meta)
UpdateSet ==
    /\ proc.up.pc = "set"
    /\ store' = StoreSet(store, NameA, Refreshed(proc.up.meta, now))
    /\ UpdateAt("save", proc.up.meta)
    /\ UNCHANGED <<file, root, backups>>

\* Update: m.store.Save(), and the return of the result
UpdateSave ==
    /\ proc.up.pc = "save"
    /\ file' = StoreSave(store, file, "ok").file
    /\ UpdateAt("updated", proc.up.meta)
    /\ UNCHANGED <<store, root, backups>>

NextRace ==
    \/ RemoveStat
    \/ RemoveBackup
    \/ \E f \in BOOLEAN : RemoveRemoveAll(f)
    \/ RemoveDelete
    \/ RemoveSave
    \/ UpdateStat
    \/ UpdateIsGitRepo
    \/ \E f \in BOOLEAN : UpdateUpdateRepo(f)
    \/ UpdateGetUpdated
    \/ UpdateGet
    \/ UpdateBackup
    \/ \E f \in BOOLEAN : UpdateRemoveAll(f)
    \/ UpdateClone
    \/ UpdateSet
    \/ UpdateSave

SpecRace == InitRace /\ [][NextRace]_vars

\* where a call stands when it has returned
Returned == {"nil", "ErrAddonNotFound", "remove", "updated", "AlreadyUpToDate",
             "ErrNotGitRepo", "ErrFFNotPossible", "fetch", "head",
             "no remote branch", "no stored URL", "clone failed"}

\* C34: when Remove(A) and Update(A) of one Manager, run side by side, have
\* both returned, the store has an entry for A only if the directory A
\* exists.
C34_RaceEndsConsistent ==
    (proc.rm.pc \in Returned /\ proc.up.pc \in Returned)
    => (NameA \in DOMAIN store => Exists(root, NameA))

-----------------------------------------------------------------------------
(* The registry with and without its cache file and its ETag file *)

\* C35: whatever cache file and ETag file there are, a GetAddons whose
\* request the server answers (200 with a valid catalog, or 304) returns a
\* catalog without error.
C35_ReachableServerGivesCatalog ==
    [][(last'.op = "GetAddons" /\ last'.fetch \in {"200", "304"})
       => (last'.res = "nil" /\ last'.ts # 0)]_vars

-----------------------------------------------------------------------------
(* What a repair changes *)

\* C36: Repair leaves the addons root and the backups as they are. Of the
\* store it deletes entries without a scanned folder and adds entries for
\* working copies that had none, every other entry staying as it was, and
\* the store file is as before or holds the store of after the call.
C36_RepairChangesStoreOnly ==
    [][last'.op = "Repair"
       => /\ root' = root
          /\ backups' = backups
          /\ \A n \in DOMAIN store \cap DOMAIN store' : store'[n] = store[n]
          /\ \A n \in DOMAIN store \ DOMAIN store' :
                ~(Exists(root, n) /\ root.dirs[n].kind = "dir" /\ ~IsHidden(n))
          /\ \A n \in DOMAIN store' \ DOMAIN store :
                /\ IsGitRepo(root, n)
                /\ store'[n].url = root.dirs[n].origin
          /\ file' \in {file, FileOf(MarshalStore(store'))}]_vars

\* a Repair that has reported a corrupted repository and a misnamed folder,
\* which are still there as they were, has deleted an orphaned entry and
\* has tracked the hand-made clone B
C36_Witness ==
    /\ last.op = "Repair"
    /\ last.rep.CorruptedRepos = <<NameA>>
    /\ Exists(root, NameA) /\ root.dirs[NameA].git = "badhead"
    /\ \E i \in DOMAIN last.rep.NameMismatches :
          /\ last.rep.NameMismatches[i] = <<NameC, NameB>>
          /\ Exists(root, NameC)
          /\ FindTOCFile(root.dirs[NameC]).name = NameB
    /\ Len(last.rep.OrphanedEntries) > 0
    /\ \A i \in DOMAIN last.rep.OrphanedEntries :
          last.rep.OrphanedEntries[i] \notin DOMAIN store
    /\ NameB \in DOMAIN store
    /\ NameA \in DOMAIN store
    /\ store[NameA].installedAt.t < store[NameB].installedAt.t

-----------------------------------------------------------------------------
(* `addons update` without a name: the UpdateAllModel, the messages the    *)
(* runtime delivers to it and the commands it returns, beside what          *)
(* Manager.UpdateAll returns from the same state                            *)

\* the names `addons update` finds tracked: A, whose remote is ahead, B,
\* which is up to date, and C, which has no directory
TrackedNames == {NameA, NameB, NameC}

\* NewUpdateAllModel: the snapshot of the tracked names, nothing counted.
\* under: what is under way; cmd: the command updateNext returned; calls:
\* the names Update was called with; envs: how the fetch of each Update
\* ends; all: what UpdateAll returns from the state of the construction.
NewUpdateAllModel(m, rem, t, envs) ==
    [addonsList |-> StoreList(m.store), current |-> 0, done |-> FALSE,
     result |-> NoUpdateAll, errors |-> <<>>, updated |-> <<>>, skipped |-> <<>>,
     under |-> "updateAllStartMsg", cmd |-> <<>>, msg |-> Ret("none", NoName, "nil"),
     calls |-> <<>>, envs |-> envs, all |-> UpdateAll(m, rem, t, envs).ret.all]

InitUpdateAllModel ==
    /\ store \in {[n \in S |-> NewMeta(IF n = NameA THEN UrlA ELSE UrlB, TimeAt(0))] :
                    S \in SUBSET TrackedNames}
    /\ file = FileOf(MarshalStore(store))
    /\ root = RootOf([n \in {NameA, NameB} |->
                        IF n = NameA THEN ClonedDir(UrlA, MgrRemotes[UrlA])
                        ELSE ClonedDir(UrlB, MgrRemotes[UrlB])])
    /\ remote = AheadRemotes
    /\ backups = NoBackups
    /\ wr = Idle
    /\ seen = NotSeen
    /\ made = <<>>
    /\ disk = NoDisk
    /\ reg = NoReg
    /\ proc = NoProc
    /\ now = 1
    /\ \E envs \in [TrackedNames -> UpdateAllEnvs] :
          tui = NewUpdateAllModel(Mgr, remote, now, envs)
    /\ last = Ret("init", NoName, "nil")

\* updateNext: the command that calls Update for the current name, or the
\* one that sends updateAllDoneMsg with the counts of the model it was
\* returned from
UpdateNext(t) ==
    IF t.current >= Len(t.addonsList)
    THEN [t EXCEPT !.under = "done command",
                   !.cmd = [Updated |-> Len(t.updated), Skipped |-> Len(t.skipped),
                            Failed |-> Len(t.errors), Errors |-> t.errors,
                            Calls |-> t.calls]]
    ELSE [t EXCEPT !.under = "update command",
                   !.cmd = t.addonsList[t.current + 1]]

\* Update, case updateAllStartMsg
UpdateAllStart ==
    /\ tui.under = "updateAllStartMsg"
    /\ tui' = IF Len(tui.addonsList) = 0
              THEN [tui EXCEPT !.done = TRUE, !.under = "quit"]
              ELSE UpdateNext(tui)
    /\ last' = Ret("updateAllStartMsg", NoName, "nil")
    /\ UNCHANGED <<store, file, root, backups>>
    /\ UNCHANGED <<wr, seen, remote, made, disk, reg, proc, now>>

\* the command of updateNext runs: m.manager.Update(name, nil), whose
\* outcome becomes an updateOneMsg
RunUpdateOne ==
    /\ tui.under = "update command"
    /\ LET r == Update(Mgr, remote, tui.cmd, now, tui.envs[tui.cmd])
       IN  /\ Becomes(r)
           /\ tui' = [tui EXCEPT !.under = "updateOneMsg", !.msg = r.ret,
                                 !.calls = Append(@, tui.cmd)]
    /\ UNCHANGED <<wr, seen, remote, made, disk, reg, proc, now>>

\* a model that gives up at the first failure
AfterOneStopping(t, msg) ==
    IF msg.res \in {"updated", "recloned", "AlreadyUpToDate"}
    THEN [t EXCEPT !.current = @ + 1,
                   !.skipped = IF msg.res = "AlreadyUpToDate"
                               THEN Append(@, msg.name) ELSE @,
                   !.updated = IF msg.res # "AlreadyUpToDate"
                               THEN Append(@, msg.name) ELSE @]
    ELSE [t EXCEPT !.errors = Append(@, <<msg.name, msg.res>>),
                   !.current = Len(t.addonsList)]

\* Update, case updateOneMsg, up to m.current++: the name goes to errors
\* (as "name: error"), to skipped or to updated
AfterOne(t, msg) ==
    LET counted ==
            CASE msg.res = "AlreadyUpToDate" -> [t EXCEPT !.skipped = Append(@, msg.name)]
              [] msg.res \in {"updated", "recloned"} ->
                    [t EXCEPT !.updated = Append(@, msg.name)]
              [] OTHER -> [t EXCEPT !.errors = Append(@, <<msg.name, msg.res>>)]
    IN  [counted EXCEPT !.current = @ + 1]

\* Update, case updateOneMsg
UpdateOne ==
    /\ tui.under = "updateOneMsg"
    /\ tui' = UpdateNext(AfterOne(tui, tui.msg))
    /\ last' = Ret("updateOneMsg", tui.msg.name, tui.msg.res)
    /\ UNCHANGED <<store, file, root, backups>>
    /\ UNCHANGED <<wr, seen, remote, made, disk, reg, proc, now>>

\* the command that sends updateAllDoneMsg runs, and Update, case
\* updateAllDoneMsg
UpdateAllDone ==
    /\ tui.under = "done command"
    /\ tui' = [tui EXCEPT !.done = TRUE, !.result = tui.cmd, !.under = "quit"]
    /\ last' = Ret("updateAllDoneMsg", NoName, "nil")
    /\ UNCHANGED <<store, file, root, backups>>
    /\ UNCHANGED <<wr, seen, remote, made, disk, reg, proc, now>>

NextUpdateAllModel ==
    \/ UpdateAllStart
    \/ RunUpdateOne
    \/ UpdateOne
    \/ UpdateAllDone

\* the runtime delivers every message and runs every command
SpecUpdateAllModel ==
    InitUpdateAllModel /\ [][NextUpdateAllModel]_vars /\ WF_vars(NextUpdateAllModel)

\* C37: with no key pressed the UpdateAllModel reaches done; when it is
\* done it has called Update once for each name of its snapshot, in the
\* order of the snapshot, failed calls included, and the numbers of names in
\* updated, skipped and errors and the list of errors are the Updated,
\* Skipped, Failed and Errors UpdateAll returns from the state the model
\* was made in.
C37_UpdateAllModelRefines ==
    /\ <>tui.done
    /\ [](tui.done
          => /\ tui.calls = tui.addonsList
             /\ tui.calls = tui.all.Calls
             /\ Len(tui.updated) = tui.all.Updated
             /\ Len(tui.skipped) = tui.all.Skipped
             /\ Len(tui.errors) = tui.all.Failed
             /\ tui.errors = tui.all.Errors
             /\ Len(tui.addonsList) > 0
                => tui.result = [tui.all EXCEPT !.Calls = tui.calls])

\* the model is done after three calls of which one updated A, one found
\* B up to date and one failed for C
C37_Witness ==
    /\ tui.done
    /\ Len(tui.calls) = 3
    /\ tui.updated = <<NameA>>
    /\ tui.skipped = <<NameB>>
    /\ tui.errors = <<(<<NameC, "ErrAddonNotFound">>)>>
    /\ store[NameA].updatedAt.t = now
    /\ tui.all.Failed = 1


-----------------------------------------------------------------------------
(* The backup engine with the saved variables: calls of CreateBackup and   *)
(* of BackupSavedVariables for one addon.                                  *)

\* the entry "savedvariables" of <backupDir>/<name>. The entry names are
\* modelled by numbers in the order of their bytes: the letter s comes after
\* every digit, so the name is above every timestamp.
SavedVariablesDir == MaxBackupTime + MaxTime + 1

\* the entries of <backupDir>/<name> that are named by a timestamp
TimestampsOf(bk, name) == DOMAIN BackupsOf(bk, name) \ {SavedVariablesDir}

\* BackupManager.GetLatestBackup
GetLatestBackup(bk, name) ==
    LET l == ListBackups(bk, name)
    IN  IF Len(l) = 0 THEN [err |-> "no backups found", ts |-> 0]
        ELSE [err |-> "nil", ts |-> l[1]]

\* BackupManager.BackupSavedVariables(gameDir, name). found: a file of
\* WTF/Account has the prefix name and the suffix .lua; copyFails: copyFile
\* returns an error, after os.MkdirAll has made
\* <backupDir>/<name>/savedvariables/<timestamp>.
BackupSavedVariables(bk, name, found, copyFails) ==
    IF ~found THEN [err |-> "nil", backups |-> bk]
    ELSE LET old == BackupsOf(bk, name)
             made1 == [k \in DOMAIN bk \cup {name} |->
                         IF k # name THEN bk[k]
                         ELSE [x \in DOMAIN old \cup {SavedVariablesDir} |->
                                 IF x \in DOMAIN old THEN old[x]
                                 ELSE PlainDir(<<>>, <<>>)]]
         IN  [err |-> IF copyFails THEN "copy" ELSE "nil", backups |-> made1]

\* bm.BackupSavedVariables(gameDir, name)
DoBackupSavedVariables(name, found, copyFails) ==
    /\ LET r == BackupSavedVariables(backups, name, found, copyFails)
       IN  /\ backups' = r.backups
           /\ last' = Ret("BackupSavedVariables", name, r.err)
    /\ UNCHANGED <<store, file, wr, seen, root, remote, made, now, tui, disk, reg, proc>>

NextSavedVariables ==
    \/ TickBackup
    \/ \E c \in BOOLEAN, d \in BOOLEAN : DoCreateBackup(NameA, c, d)
    \/ \E f \in BOOLEAN, c \in BOOLEAN : DoBackupSavedVariables(NameA, f, c)

SpecSavedVariables == InitBackup /\ [][NextSavedVariables]_vars

\* the n greatest numbers of S
Newest(S, n) == {x \in S : Cardinality({y \in S : y > x}) < n}

\* what ListBackups and GetLatestBackup return are backups CreateBackup made
OnlyBackupsListed ==
    LET l == ListBackups(backups, NameA)
        g == GetLatestBackup(backups, NameA)
    IN  /\ Range(l) \subseteq Range(made)
        /\ \A i \in 1..Len(l), j \in 1..Len(l) : i < j => l[i] > l[j]
        /\ g.err = "nil" =>
              /\ g.ts \in Range(made)
              /\ \A t \in TimestampsOf(backups, NameA) : t <= g.ts

\* a successful CreateBackup leaves the MaxBackupsPerAddon newest of the
\* timestamp-named backups, and every other entry
EvictsBackupsOnly ==
    last'.op = "CreateBackup" /\ last'.res = "nil" =>
        /\ Newest(TimestampsOf(backups, NameA) \cup {FormatTimestamp(now)},
                  MaxBackupsPerAddon)
              \subseteq TimestampsOf(backups', NameA)
        /\ DOMAIN BackupsOf(backups, NameA) \ TimestampsOf(backups, NameA)
              \subseteq DOMAIN BackupsOf(backups', NameA)

\* C38: ListBackups(name) and GetLatestBackup(name) return only the
\* timestamp-named backups that CreateBackup made, newest first, also after
\* BackupSavedVariables has been called for the same addon, and the
\* retention of CreateBackup counts and deletes only such backups.
C38_OnlyCreatedBackups == []OnlyBackupsListed /\ [][EvictsBackupsOnly]_vars

====
